---- MODULE Spec2Model ----
(***************************************************************************)
(* A model of the maas-operator controllers:                               *)
(*   - TierReconciler (the aggregation engine): Reconcile,                 *)
(*     reconcileAllMaasPlatforms, reconcileMaasPlatformTiers,              *)
(*     updateTierConfigMap, updateRateLimitPolicy,                         *)
(*     updateTokenRateLimitPolicy;                                         *)
(*   - MaasPlatformReconciler (the platform orchestrator): Reconcile,      *)
(*     ensureNamespaces, deployEmbeddedManifest, applyUnstructured,        *)
(*     updateStatus.                                                       *)
(* The cluster store is one function from object keys to objects.  Every   *)
(* handler is one action; inside it the store calls are threaded through   *)
(* a call context that records each call and lets the i-th call of the     *)
(* invocation fail with a store error.                                     *)
(***************************************************************************)
EXTENDS Integers, Sequences, FiniteSets, TLC

VARIABLES
    tiers,      \* the Tier objects in the store (a set of Tier records)
    store,      \* object key -> Absent or the stored object (every other kind)
    last,       \* the record of the most recent handler invocation
    faultsLeft, \* how many more store calls may fail
    env,        \* the CLUSTER_DOMAIN variable of the operator's environment
    settled,    \* the last platform reconcile, while it succeeded and nothing
                \* outside the operator has changed the store since
    inflight    \* invocation -> where it stands inside applyUnstructured

vars == <<tiers, store, last, faultsLeft, env, settled, inflight>>

(***************************************************************************)
(* Bounds of the model.                                                    *)
(***************************************************************************)
\* at most this many Tier objects in the store at once
MaxTiers == 2
\* at most this many store calls fail in one behaviour
MaxFaults == 1
\* no object is rewritten beyond this resourceVersion
MaxRV == 2
\* the same where other actors rewrite the managed objects
MaxDriftRV == 3

(***************************************************************************)
(* Strings that the code compares, sorts, searches or concatenates are     *)
(* sequences of byte values; the other strings are TLA+ strings.           *)
(***************************************************************************)
NameFree       == <<102, 114, 101, 101>>
NamePremium    == <<112, 114, 101, 109, 105, 117, 109>>
NameEnterprise == <<101, 110, 116, 101, 114, 112, 114, 105, 115, 101>>
NameBasic      == <<98, 97, 115, 105, 99>>
SubPremium     == <<112, 114, 101, 109, 105, 117, 109>>
SubEnterprise  == <<101, 110, 116, 101, 114, 112, 114, 105, 115, 101>>
SufTier        == <<45, 116, 105, 101, 114>>
SufUserTokens  == <<45, 117, 115, 101, 114, 45, 116, 111, 107, 101, 110, 115>>

\* Go's string comparison a < b: bytewise lexicographic
StrLess(a, b) ==
    \E i \in 1..(Len(b)) :
        /\ \A j \in 1..(i - 1) : j <= Len(a) /\ a[j] = b[j]
        /\ \/ i = Len(a) + 1
           \/ i <= Len(a) /\ a[i] < b[i]

\* strings.ToLower on ASCII bytes
ToLower(s) == [i \in 1..Len(s) |-> IF s[i] >= 65 /\ s[i] <= 90 THEN s[i] + 32 ELSE s[i]]

\* strings.Contains(s, sub)
Contains(s, sub) ==
    \E i \in 0..(Len(s) - Len(sub)) : \A j \in 1..Len(sub) : s[i + j] = sub[j]

(***************************************************************************)
(* Identities.                                                             *)
(***************************************************************************)
Namespaces == {"maas-api", "ns2"}

\* the MaasPlatform identities of the model
P1 == [name |-> "mp", namespace |-> "maas-api"]
P2 == [name |-> "mp", namespace |-> "ns2"]
PlatformIds == {P1, P2}

Absent == [present |-> FALSE]

\* a Tier's RateLimits / TokenRateLimits pointer is nil
NoCfg == [set |-> FALSE]
Cfg(limit, window, counters) ==
    [set |-> TRUE, limit |-> limit, window |-> window, counters |-> counters]

Tier(ns, name, refName, refNs, rate, token) ==
    [namespace |-> ns, name |-> name, generateName |-> <<>>,
     targetRef |-> [name |-> refName, namespace |-> refNs],
     rateLimits |-> rate, tokenRateLimits |-> token]

\* the Tier objects a user may create; TierA2 is TierA with a changed limit,
\* TierC has TierA's name in another namespace and targets the same platform
TierA  == Tier("maas-api", NameFree, "mp", "", Cfg(5, "2m", <<>>), NoCfg)
TierA2 == Tier("maas-api", NameFree, "mp", "", Cfg(9, "2m", <<>>), NoCfg)
TierB  == Tier("maas-api", NamePremium, "mp", "maas-api",
               Cfg(20, "2m", <<"auth.identity.group">>), Cfg(50000, "1m", <<>>))
TierC  == Tier("ns2", NameFree, "mp", "maas-api", Cfg(7, "1h", <<>>), NoCfg)
TierD  == Tier("ns2", NameEnterprise, "mp", "", NoCfg, Cfg(100000, "1m", <<>>))
TierE  == Tier("maas-api", NameBasic, "other", "maas-api", Cfg(3, "30s", <<>>), NoCfg)
TierUniverse == {TierA, TierA2, TierB, TierC, TierD, TierE}

TierId(t) == [namespace |-> t.namespace, name |-> t.name]

(***************************************************************************)
(* The store collaborator (client.Client): Get, List, Create, Update.      *)
(* An object is [present, rv, body, labels, owner]; rv is the concurrency  *)
(* token (metadata.resourceVersion), 0 on an object that was never read    *)
(* from the store.                                                         *)
(***************************************************************************)
Key(kind, ns, name) == [kind |-> kind, namespace |-> ns, name |-> name]

CMKey   == Key("ConfigMap", "maas-api", "tier-to-group-mapping")
RLPKey  == Key("RateLimitPolicy", "openshift-ingress", "gateway-rate-limits")
TRLPKey == Key("TokenRateLimitPolicy", "openshift-ingress", "gateway-token-rate-limits")
ArtifactKeys == {CMKey, RLPKey, TRLPKey}

PKey(p) == Key("MaasPlatform", p.namespace, p.name)
PlatformKeys == {PKey(p) : p \in PlatformIds}

\* the embedded manifests (go:embed manifests): a document that parses is an
\* object of some kind, namespace and name whose text may hold the
\* CLUSTER_DOMAIN variable; a document may also fail to parse
Doc(kind, ns, name, usesDomain) ==
    [parses |-> TRUE, kind |-> kind, namespace |-> ns, name |-> name,
     usesDomain |-> usesDomain]
BadDoc == [parses |-> FALSE]

PathApi        == "manifests/maas-api/resources.yaml"
PathNetworking == "manifests/networking/resources.yaml"
PathPolicies   == "manifests/policies/gateway-auth-policy.yaml"

Manifest(path) ==
    CASE path = PathApi ->
            << Doc("ConfigMap", "maas-api", "tier-to-group-mapping", FALSE),
               Doc("PersistentVolumeClaim", "maas-api", "maas-api-data", FALSE),
               BadDoc,
               Doc("Deployment", "maas-api", "maas-api", FALSE),
               Doc("HTTPRoute", "maas-api", "maas-api-route", TRUE) >>
      [] path = PathNetworking ->
            << Doc("GatewayClass", "", "openshift-default", FALSE),
               Doc("Gateway", "openshift-ingress", "maas-default-gateway", TRUE) >>
      [] path = PathPolicies ->
            << Doc("AuthPolicy", "openshift-ingress", "gateway-auth-policy", FALSE) >>

Paths == <<PathApi, PathNetworking, PathPolicies>>

DocKey(d) == Key(d.kind, d.namespace, d.name)

\* the objects the platform reconciler applies
DocsOf(path) == {Manifest(path)[i] : i \in 1..Len(Manifest(path))}
ManagedKeys ==
    {DocKey(d) : d \in {e \in DocsOf(PathApi) \union DocsOf(PathNetworking)
                                \union DocsOf(PathPolicies) : e.parses}} \ {CMKey}

\* requiredNamespaces of ensureNamespaces
RequiredNamespaces == <<"maas-api", "kuadrant-system">>
NamespaceKey(ns) == Key("Namespace", "", ns)
NamespaceKeys == {NamespaceKey(RequiredNamespaces[i]) : i \in 1..Len(RequiredNamespaces)}

\* the cluster ingress configuration (config.openshift.io/v1 Ingress "cluster")
IngressKey == Key("Ingress", "", "cluster")

Keys == ArtifactKeys \union PlatformKeys \union ManagedKeys \union NamespaceKeys
            \union {IngressKey}

NoOwner  == [set |-> FALSE]
NoLabels == <<>>
NoBody   == <<>>

\* a freshly constructed object: no resourceVersion, nothing set
NewObject == [present |-> TRUE, rv |-> 0, body |-> NoBody,
              labels |-> NoLabels, owner |-> NoOwner]

\* an object without its concurrency token
Content(o) == [body |-> o.body, labels |-> o.labels, owner |-> o.owner]

\* the call context of one handler invocation: the store as the calls of
\* this invocation have left it, the calls made so far, the positions
\* (1st, 2nd, ... call of the invocation) at which the store fails, one
\* entry per aggregation (reconcileMaasPlatformTiers) the invocation ran,
\* and the cluster domain each substituteEnvVars of the invocation resolved
Ctx(st, faults) ==
    [st |-> st, tr |-> <<>>, faults |-> faults, agg |-> <<>>, dom |-> <<>>]

Call(op, key, res) ==
    [op |-> op, kind |-> key.kind, namespace |-> key.namespace,
     name |-> key.name, res |-> res]

Faulty(c) == (Len(c.tr) + 1) \in c.faults

Logged(c, op, key, res) == [c EXCEPT !.tr = Append(@, Call(op, key, res))]

\* a Create or Update call is recorded with the object it sent
LoggedWrite(c, op, key, res, obj) ==
    [c EXCEPT !.tr = Append(@, [op |-> op, kind |-> key.kind,
                                namespace |-> key.namespace, name |-> key.name,
                                res |-> res, obj |-> obj])]

\* r.Get(ctx, key, obj): on success obj is overwritten with the stored
\* object; on any error obj is left as the caller built it
Get(c, key, obj) ==
    IF Faulty(c)
    THEN [c |-> Logged(c, "get", key, "error"), res |-> "error", obj |-> obj]
    ELSE IF ~c.st[key].present
    THEN [c |-> Logged(c, "get", key, "notfound"), res |-> "notfound", obj |-> obj]
    ELSE [c |-> Logged(c, "get", key, "ok"), res |-> "ok", obj |-> c.st[key]]

\* r.Create(ctx, obj): fails when the object exists or carries a
\* resourceVersion; the stored object gets its first resourceVersion
Create(c, key, obj) ==
    IF Faulty(c)
    THEN [c |-> LoggedWrite(c, "create", key, "error", obj), res |-> "error"]
    ELSE IF c.st[key].present
    THEN [c |-> LoggedWrite(c, "create", key, "exists", obj), res |-> "exists"]
    ELSE IF obj.rv # 0
    THEN [c |-> LoggedWrite(c, "create", key, "invalid", obj), res |-> "invalid"]
    ELSE [c |-> [LoggedWrite(c, "create", key, "ok", obj)
                   EXCEPT !.st[key] = [obj EXCEPT !.rv = 1]],
          res |-> "ok"]

\* r.Update(ctx, obj): a whole-object replace guarded by the resourceVersion
\* the object carries (none carried: unconditional); a replace with the
\* stored content writes nothing and keeps the resourceVersion
Update(c, key, obj) ==
    IF Faulty(c)
    THEN [c |-> LoggedWrite(c, "update", key, "error", obj), res |-> "error"]
    ELSE IF ~c.st[key].present
    THEN [c |-> LoggedWrite(c, "update", key, "notfound", obj), res |-> "notfound"]
    ELSE IF obj.rv # 0 /\ obj.rv # c.st[key].rv
    THEN [c |-> LoggedWrite(c, "update", key, "conflict", obj), res |-> "conflict"]
    ELSE IF Content(obj) = Content(c.st[key])
    THEN [c |-> LoggedWrite(c, "update", key, "ok", obj), res |-> "ok"]
    ELSE [c |-> [LoggedWrite(c, "update", key, "ok", obj)
                   EXCEPT !.st[key] = [obj EXCEPT !.rv = c.st[key].rv + 1]],
          res |-> "ok"]

\* r.List(ctx, list): the items come back in an order the caller does not
\* control (order is one of the enumerations of the stored set)
List(c, kind, items) ==
    IF Faulty(c)
    THEN [c |-> Logged(c, "list", Key(kind, "", ""), "error"), res |-> "error",
          items |-> <<>>]
    ELSE [c |-> Logged(c, "list", Key(kind, "", ""), "ok"), res |-> "ok",
          items |-> items]

(***************************************************************************)
(* TierReconciler: the three derived artifacts.                            *)
(***************************************************************************)
\* map[key] = value on a Go map
Put(m, k, v) == [x \in (DOMAIN m) \union {k} |-> IF x = k THEN v ELSE m[x]]

\* tierName := tier.Name; if tierName == "" { tier.GetGenerateName() + "-tier" }
TierName(t) == IF t.name = <<>> THEN t.generateName \o SufTier ELSE t.name

\* the level heuristic with the two tests in the other order (a variant
\* used to test the tier mapping)
LevelEnterpriseFirst(tierName) ==
    IF Contains(ToLower(tierName), SubEnterprise) THEN 2
    ELSE IF Contains(ToLower(tierName), SubPremium) THEN 1
    ELSE 0

\* the level heuristic of updateTierConfigMap
Level(tierName) ==
    IF Contains(ToLower(tierName), SubPremium) THEN 1
    ELSE IF Contains(ToLower(tierName), SubEnterprise) THEN 2
    ELSE 0

\* one block of the tier mapping, as the Sprintf calls write it
TierBlock(t) ==
    [name |-> TierName(t), level |-> Level(TierName(t)),
     groups |-> << <<"tier-", TierName(t), "-users">>, "system:authenticated" >>]

\* the tiers left in list order (a variant used to test the properties of
\* the tier mapping)
Unsorted(ts) == ts

\* sort.Slice(sortedTiers, Name less): the tiers in ascending order of Name
InsertTier(s, t) ==
    LET k == Cardinality({i \in 1..Len(s) : ~StrLess(t.name, s[i].name)})
    IN  SubSeq(s, 1, k) \o <<t>> \o SubSeq(s, k + 1, Len(s))

RECURSIVE SortTiers(_)
SortTiers(ts) ==
    IF ts = <<>> THEN <<>>
    ELSE InsertTier(SortTiers(SubSeq(ts, 1, Len(ts) - 1)), ts[Len(ts)])

\* the value of the ConfigMap's "tiers" key
TierMappings(ts) == LET sorted == SortTiers(ts) IN [i \in 1..Len(sorted) |-> TierBlock(sorted[i])]

\* one entry of a policy's limits map
LimitRule(cfg, tierName) ==
    [rates    |-> << [limit |-> cfg.limit, window |-> cfg.window] >>,
     when     |-> << [predicate |-> <<"auth.identity.tier == \"", tierName, "\"">>] >>,
     counters |-> IF Len(cfg.counters) = 0 THEN <<"auth.identity.userid">>
                  ELSE cfg.counters]

\* the limits loop of updateRateLimitPolicy, over the tiers in list order
RECURSIVE RateLimits(_)
RateLimits(ts) ==
    IF ts = <<>> THEN <<>>
    ELSE LET m == RateLimits(SubSeq(ts, 1, Len(ts) - 1))
             t == ts[Len(ts)]
         IN  IF ~t.rateLimits.set THEN m
             ELSE Put(m, TierName(t), LimitRule(t.rateLimits, TierName(t)))

\* the token limits taken from the RateLimits of the tiers (a variant used
\* to test the properties of the token limit map)
RECURSIVE TokenLimitsFromRate(_)
TokenLimitsFromRate(ts) ==
    IF ts = <<>> THEN <<>>
    ELSE LET m == TokenLimitsFromRate(SubSeq(ts, 1, Len(ts) - 1))
             t == ts[Len(ts)]
         IN  IF ~t.rateLimits.set THEN m
             ELSE Put(m, TierName(t) \o SufUserTokens,
                      LimitRule(t.rateLimits, TierName(t)))

\* the limits loop of updateTokenRateLimitPolicy
RECURSIVE TokenLimits(_)
TokenLimits(ts) ==
    IF ts = <<>> THEN <<>>
    ELSE LET m == TokenLimits(SubSeq(ts, 1, Len(ts) - 1))
             t == ts[Len(ts)]
         IN  IF ~t.tokenRateLimits.set THEN m
             ELSE Put(m, TierName(t) \o SufUserTokens,
                      LimitRule(t.tokenRateLimits, TierName(t)))

GatewayRef ==
    [group |-> "gateway.networking.k8s.io", kind |-> "Gateway",
     name |-> "maas-default-gateway"]

\* a policy built for another gateway (a variant used to test the fixed
\* identities)
PolicySpecOtherGateway(limits) ==
    [targetRef |-> [GatewayRef EXCEPT !.name = "other-gateway"], limits |-> limits]

PolicySpec(limits) == [targetRef |-> GatewayRef, limits |-> limits]

PlatformLabel(mp) == <<mp.name, ".", mp.namespace>>

\* the tail shared by the three update functions:
\*   if err := r.Get(ctx, key, obj); errors.IsNotFound(err) { Create } else { Update }
\* The Get reads into the object that was just built, so on success the
\* object that is then sent to Update is the stored one.
Written(w) == [c |-> w.c, err |-> w.res # "ok"]

WriteAfterGet(g, key) ==
    Written(IF g.res = "notfound" THEN Create(g.c, key, g.obj)
            ELSE Update(g.c, key, g.obj))

GetThenWrite(c, key, obj) == WriteAfterGet(Get(c, key, obj), key)

\* updateTierConfigMap after its first Get (g)
BuildConfigMap(g, ts, mp) ==
    IF g.res = "error" THEN [c |-> g.c, err |-> TRUE]
    ELSE GetThenWrite(g.c, CMKey,
            [g.obj EXCEPT
                !.body   = [tiers |-> TierMappings(ts)],
                !.labels = IF Len(ts) > 0
                           THEN Put(Put(@, "app.kubernetes.io/managed-by", "maas-operator"),
                                    "maas-platform", PlatformLabel(mp))
                           ELSE @])

updateTierConfigMap(c, ts, mp) == BuildConfigMap(Get(c, CMKey, NewObject), ts, mp)

\* updateRateLimitPolicy after its first Get (g)
BuildRateLimitPolicy(g, ts) ==
    IF g.res = "error" THEN [c |-> g.c, err |-> TRUE]
    ELSE GetThenWrite(g.c, RLPKey, [g.obj EXCEPT !.body = PolicySpec(RateLimits(ts))])

updateRateLimitPolicy(c, ts, mp) == BuildRateLimitPolicy(Get(c, RLPKey, NewObject), ts)

\* updateTokenRateLimitPolicy after its first Get (g)
BuildTokenRateLimitPolicy(g, ts) ==
    IF g.res = "error" THEN [c |-> g.c, err |-> TRUE]
    ELSE GetThenWrite(g.c, TRLPKey, [g.obj EXCEPT !.body = PolicySpec(TokenLimits(ts))])

updateTokenRateLimitPolicy(c, ts, mp) ==
    BuildTokenRateLimitPolicy(Get(c, TRLPKey, NewObject), ts)

(***************************************************************************)
(* TierReconciler: Reconcile and the aggregation over the platforms.       *)
(***************************************************************************)
\* the enumerations of a finite set: the orders a List call may return
Perms(S) ==
    {s \in [1..Cardinality(S) -> S] : \A i, j \in 1..Cardinality(S) : s[i] = s[j] => i = j}

\* the filter compares the names only (a variant used to test the target
\* resolution)
TargetsByName(t, mp) == t.targetRef.name = mp.name

\* the filter of reconcileMaasPlatformTiers
Targets(t, mp) ==
    LET tierNamespace == IF t.targetRef.namespace = "" THEN t.namespace
                         ELSE t.targetRef.namespace
    IN  t.targetRef.name = mp.name /\ tierNamespace = mp.namespace

\* reconcileMaasPlatformTiers from "Update TokenRateLimitPolicy" on
AfterRateLimitPolicy(rl, ts, mp) ==
    IF rl.err THEN [c |-> rl.c, err |-> TRUE, targetTiers |-> ts]
    ELSE [targetTiers |-> ts] @@ updateTokenRateLimitPolicy(rl.c, ts, mp)

\* the RateLimitPolicy attempted although the ConfigMap failed (a variant
\* used to test the failure properties)
AfterTierConfigMapContinue(cm, ts, mp) ==
    AfterRateLimitPolicy(updateRateLimitPolicy(cm.c, ts, mp), ts, mp)

\* reconcileMaasPlatformTiers from "Update RateLimitPolicy" on
AfterTierConfigMap(cm, ts, mp) ==
    IF cm.err THEN [c |-> cm.c, err |-> TRUE, targetTiers |-> ts]
    ELSE AfterRateLimitPolicy(updateRateLimitPolicy(cm.c, ts, mp), ts, mp)

\* the artifacts applied whatever the number of matching tiers (a variant
\* used to test the zero-match properties)
ApplyArtifactsAlways(c, ts, mp) ==
    AfterTierConfigMap(updateTierConfigMap(c, ts, mp), ts, mp)

\* reconcileMaasPlatformTiers from the check of len(targetTiers) on
ApplyArtifacts(c, ts, mp) ==
    IF Len(ts) = 0 THEN [c |-> c, err |-> FALSE, targetTiers |-> ts]
    ELSE AfterTierConfigMap(updateTierConfigMap(c, ts, mp), ts, mp)

\* reconcileMaasPlatformTiers after r.List (l)
FilterAndApply(l, mp) ==
    IF l.res = "error" THEN [c |-> l.c, err |-> TRUE, targetTiers |-> <<>>]
    ELSE ApplyArtifacts(l.c, SelectSeq(l.items, LAMBDA t : Targets(t, mp)), mp)

\* what one aggregation did, entered in the context: the platform, the
\* matching Tiers as filtered, the result, the store before and after, and
\* the store calls it made
Entered(c, mp, r) ==
    [c |-> [r.c EXCEPT !.agg = Append(@,
                [mp |-> mp, targetTiers |-> r.targetTiers, err |-> r.err,
                 before |-> c.st, after |-> r.c.st,
                 calls |-> SubSeq(r.c.tr, Len(c.tr) + 1, Len(r.c.tr))])],
     err |-> r.err]

\* reconcileMaasPlatformTiers(ctx, maasPlatform); order is what List returns
reconcileMaasPlatformTiers(c, mp, order) ==
    Entered(c, mp, FilterAndApply(List(c, "Tier", order), mp))

\* the loop left at the first platform whose aggregation fails (a variant
\* used to test the deletion properties)
RECURSIVE ReconcileEachStop(_, _, _, _)
RECURSIVE StopOrNext(_, _, _, _)
ReconcileEachStop(c, items, orders, i) ==
    IF i > Len(items) THEN c
    ELSE StopOrNext(reconcileMaasPlatformTiers(c, items[i], orders[i]), items, orders, i)

StopOrNext(r, items, orders, i) ==
    IF r.err THEN r.c ELSE ReconcileEachStop(r.c, items, orders, i + 1)

\* the loop of reconcileAllMaasPlatforms over maasPlatformList.Items[i..];
\* an error of one platform is logged and the loop continues
RECURSIVE ReconcileEach(_, _, _, _)
ReconcileEach(c, items, orders, i) ==
    IF i > Len(items) THEN c
    ELSE ReconcileEach(reconcileMaasPlatformTiers(c, items[i], orders[i]).c,
                       items, orders, i + 1)

\* reconcileAllMaasPlatforms after r.List (l): it returns nil whatever the
\* platforms' aggregations returned
EachListed(l, orders) ==
    IF l.res = "error" THEN [c |-> l.c, err |-> TRUE]
    ELSE [c |-> ReconcileEach(l.c, l.items, orders, 1), err |-> FALSE]

\* reconcileAllMaasPlatforms(ctx)
reconcileAllMaasPlatforms(c, platformOrder, orders) ==
    EachListed(List(c, "MaasPlatform", platformOrder), orders)

\* r.Get(ctx, req.NamespacedName, tier)
GetTier(c, id) ==
    LET key == Key("Tier", id.namespace, "")
        found == {t \in tiers : TierId(t) = id}
    IN  IF Faulty(c) THEN [c |-> Logged(c, "get", key, "error"), res |-> "error"]
        ELSE IF found = {}
        THEN [c |-> Logged(c, "get", key, "notfound"), res |-> "notfound"]
        ELSE [c |-> Logged(c, "get", key, "ok"), res |-> "ok",
              tier |-> CHOOSE t \in found : TRUE]

\* the platform a Tier points at
ResolveTarget(t) ==
    [name |-> t.targetRef.name,
     namespace |-> IF t.targetRef.namespace = "" THEN t.namespace
                   ELSE t.targetRef.namespace]

NoPlatform == [name |-> "", namespace |-> ""]

\* r.Get(ctx, maasPlatformKey, maasPlatform)
GetPlatform(c, mp) ==
    IF PKey(mp) \in Keys THEN Get(c, PKey(mp), NewObject)
    ELSE IF Faulty(c)
    THEN [c |-> Logged(c, "get", PKey(mp), "error"), res |-> "error"]
    ELSE [c |-> Logged(c, "get", PKey(mp), "notfound"), res |-> "notfound"]

\* Reconcile marks the MaasPlatform it fetched before it aggregates (a
\* variant used to test that the aggregation leaves platforms alone)
AfterGetPlatformTouch(gp, mp, order) ==
    IF gp.res # "ok"
    THEN [path |-> "child", target |-> mp, c |-> gp.c, err |-> TRUE]
    ELSE [path |-> "child", target |-> mp]
         @@ reconcileMaasPlatformTiers(
                Update(gp.c, PKey(mp),
                       [gp.obj EXCEPT !.labels = Put(@, "aggregated", "true")]).c,
                mp, order)

\* Reconcile aggregates for a target MaasPlatform that was not found (a
\* variant used to test the reconcile of a Tier without platform)
AfterGetPlatformMissing(gp, mp, order) ==
    IF gp.res = "error"
    THEN [path |-> "child", target |-> mp, c |-> gp.c, err |-> TRUE]
    ELSE [path |-> "child", target |-> mp] @@ reconcileMaasPlatformTiers(gp.c, mp, order)

\* Reconcile after the target MaasPlatform was fetched (gp)
AfterGetPlatform(gp, mp, order) ==
    IF gp.res # "ok"
    THEN [path |-> "child", target |-> mp, c |-> gp.c, err |-> TRUE]
    ELSE [path |-> "child", target |-> mp] @@ reconcileMaasPlatformTiers(gp.c, mp, order)

\* Reconcile after the Tier was fetched (g)
AfterGetTier(g, platformOrder, orders) ==
    IF g.res = "notfound"
    THEN [path |-> "deleted", target |-> NoPlatform]
         @@ reconcileAllMaasPlatforms(g.c, platformOrder, orders)
    ELSE IF g.res = "error"
    THEN [path |-> "error", target |-> NoPlatform, c |-> g.c, err |-> TRUE]
    ELSE AfterGetPlatform(GetPlatform(g.c, ResolveTarget(g.tier)),
                          ResolveTarget(g.tier), orders[1])

\* TierReconciler.Reconcile(ctx, req)
Reconcile(c, req, platformOrder, orders) ==
    AfterGetTier(GetTier(c, req), platformOrder, orders)

(***************************************************************************)
(* MaasPlatformReconciler: the platform orchestrator.                      *)
(***************************************************************************)
DefaultDomain == "apps.example.com"

\* the domain field is taken as it is found, empty or not (a variant used
\* to test the cluster domain)
DomainFoundAsIs(g) ==
    IF g.res = "ok" /\ g.obj.body.found
    THEN g.obj.body.domain
    ELSE DefaultDomain

\* substituteEnvVars after the Get of the cluster ingress object (g): an
\* error of the lookup is dropped and the default takes its place
DomainFound(g) ==
    IF g.res = "ok" /\ g.obj.body.found /\ g.obj.body.domain # ""
    THEN g.obj.body.domain
    ELSE DefaultDomain

Resolved(c, domain) == [c |-> [c EXCEPT !.dom = Append(@, domain)], domain |-> domain]

DomainAfterGet(g) == Resolved(g.c, DomainFound(g))

\* the cluster domain substituteEnvVars puts in place of the variable
substituteEnvVars(c) ==
    IF env # "" THEN Resolved(c, env)
    ELSE DomainAfterGet(Get(c, IngressKey, NewObject))

\* splitYAMLDocuments: a blob is a sequence of bytes
NewLine == 10
Dash == 45
WhiteSpace == {9, 10, 11, 12, 13, 32}
Separator == <<Dash, Dash, Dash>>

\* bytes.Split(data, "\n"): the pieces between the newlines, at least one
RECURSIVE SplitLinesFrom(_, _, _)
SplitLinesFrom(data, i, line) ==
    IF i > Len(data) THEN <<line>>
    ELSE IF data[i] = NewLine THEN <<line>> \o SplitLinesFrom(data, i + 1, <<>>)
    ELSE SplitLinesFrom(data, i + 1, Append(line, data[i]))

SplitLines(data) == SplitLinesFrom(data, 1, <<>>)

\* bytes.TrimSpace
RECURSIVE TrimLeft(_)
TrimLeft(s) ==
    IF s # <<>> /\ s[1] \in WhiteSpace THEN TrimLeft(Tail(s)) ELSE s

RECURSIVE TrimRight(_)
TrimRight(s) ==
    IF s # <<>> /\ s[Len(s)] \in WhiteSpace
    THEN TrimRight(SubSeq(s, 1, Len(s) - 1)) ELSE s

TrimSpace(s) == TrimRight(TrimLeft(s))

\* bytes.HasPrefix
HasPrefix(s, prefix) ==
    Len(s) >= Len(prefix) /\ SubSeq(s, 1, Len(prefix)) = prefix

\* the loop of splitYAMLDocuments over lines[i..]
RECURSIVE SplitFrom(_, _, _, _)
SplitFrom(lines, i, documents, currentDoc) ==
    IF i > Len(lines)
    THEN IF Len(currentDoc) > 0 THEN Append(documents, currentDoc) ELSE documents
    ELSE IF HasPrefix(TrimSpace(lines[i]), Separator) /\ Len(currentDoc) > 0
    THEN SplitFrom(lines, i + 1, Append(documents, currentDoc), <<>>)
    ELSE SplitFrom(lines, i + 1, documents,
                   currentDoc \o lines[i]
                       \o (IF i < Len(lines) THEN <<NewLine>> ELSE <<>>))

splitYAMLDocuments(data) == SplitFrom(SplitLines(data), 1, <<>>, <<>>)

\* a document after substitution and yaml.Unmarshal
Render(d, domain) ==
    [NewObject EXCEPT
        !.body = IF d.usesDomain THEN [text |-> DocKey(d), domain |-> domain]
                 ELSE [text |-> DocKey(d)]]

\* no owner reference is set (a variant used to test the ownership
\* properties)
WithoutOwner(obj, d, mp) == obj

\* the owner reference set on every object, whatever its namespace (a
\* variant used to test the ownership properties)
WithOwnerAlways(obj, d, mp) ==
    [obj EXCEPT !.owner = [set |-> TRUE, kind |-> "MaasPlatform",
                           name |-> mp.name, namespace |-> mp.namespace]]

\* the owner reference of deployEmbeddedManifest: only on an object in the
\* namespace of the MaasPlatform
WithOwner(obj, d, mp) ==
    IF d.namespace # "" /\ d.namespace = mp.namespace
    THEN [obj EXCEPT !.owner = [set |-> TRUE, kind |-> "MaasPlatform",
                                name |-> mp.name, namespace |-> mp.namespace]]
    ELSE obj

\* the update path of applyUnstructured sends the object without its owner
\* reference (a variant used to test the idempotence properties)
ApplyAfterGetDropOwner(g, key, obj) ==
    IF g.res = "notfound" THEN Written(Create(g.c, key, obj))
    ELSE IF g.res = "error" THEN [c |-> g.c, err |-> TRUE]
    ELSE Written(Update(g.c, key, [obj EXCEPT !.rv = g.obj.rv, !.owner = NoOwner]))

\* applyUnstructured merges the rendered fields into the stored object (a
\* variant used to test the whole-object replace)
ApplyAfterGetMerge(g, key, obj) ==
    IF g.res = "notfound" THEN Written(Create(g.c, key, obj))
    ELSE IF g.res = "error" THEN [c |-> g.c, err |-> TRUE]
    ELSE Written(Update(g.c, key, [obj EXCEPT !.rv = g.obj.rv,
                                              !.body = obj.body @@ g.obj.body]))

\* applyUnstructured creates the object whether or not it is stored (a
\* variant used to test the convergence of retries)
ApplyAfterGetCreate(g, key, obj) ==
    IF g.res = "error" THEN [c |-> g.c, err |-> TRUE]
    ELSE Written(Create(g.c, key, obj))

\* applyUnstructured replaces the object without the resourceVersion it
\* read (a variant used to test the properties of concurrent invocations)
ApplyAfterGetNoToken(g, key, obj) ==
    IF g.res = "notfound" THEN Written(Create(g.c, key, obj))
    ELSE IF g.res = "error" THEN [c |-> g.c, err |-> TRUE]
    ELSE Written(Update(g.c, key, obj))

\* applyUnstructured leaves an object that is already stored as it is (a
\* variant used to test the convergence properties)
ApplyAfterGetCreateOnly(g, key, obj) ==
    IF g.res = "notfound" THEN Written(Create(g.c, key, obj))
    ELSE IF g.res = "error" THEN [c |-> g.c, err |-> TRUE]
    ELSE [c |-> g.c, err |-> FALSE]

\* a create that is not accepted is followed by an update of the object (a
\* variant used to test the create race)
UpdateUnlessCreated(w, key, obj) ==
    IF w.res = "ok" THEN Written(w) ELSE Written(Update(w.c, key, obj))

ApplyAfterGetFallBack(g, key, obj) ==
    IF g.res = "notfound" THEN UpdateUnlessCreated(Create(g.c, key, obj), key, obj)
    ELSE IF g.res = "error" THEN [c |-> g.c, err |-> TRUE]
    ELSE Written(Update(g.c, key, [obj EXCEPT !.rv = g.obj.rv]))

\* applyUnstructured after r.Get(ctx, key, current) (g)
ApplyAfterGet(g, key, obj) ==
    IF g.res = "notfound" THEN Written(Create(g.c, key, obj))
    ELSE IF g.res = "error" THEN [c |-> g.c, err |-> TRUE]
    ELSE Written(Update(g.c, key, [obj EXCEPT !.rv = g.obj.rv]))

applyUnstructured(c, key, obj) == ApplyAfterGet(Get(c, key, NewObject), key, obj)

\* the loop of deployEmbeddedManifest over documents[i..]
RECURSIVE DeployFrom(_, _, _, _, _, _)
RECURSIVE AfterApply(_, _, _, _, _, _)
RECURSIVE AfterPVCGet(_, _, _, _, _, _)

\* the loop returns an error at a document that does not parse (a variant
\* used to test the skipping of such documents)
DeployFromParsed(c, docs, i, mp, skipConfigMap, domain) ==
    IF i > Len(docs) THEN [c |-> c, err |-> FALSE]
    ELSE IF ~docs[i].parses
    THEN [c |-> c, err |-> TRUE]
    ELSE IF skipConfigMap /\ docs[i].kind = "ConfigMap"
            /\ docs[i].name = "tier-to-group-mapping"
    THEN DeployFrom(c, docs, i + 1, mp, skipConfigMap, domain)
    ELSE IF docs[i].kind = "PersistentVolumeClaim"
    THEN AfterPVCGet(Get(c, DocKey(docs[i]), NewObject), docs, i, mp, skipConfigMap, domain)
    ELSE AfterApply(applyUnstructured(c, DocKey(docs[i]),
                                      WithOwner(Render(docs[i], domain), docs[i], mp)),
                    docs, i, mp, skipConfigMap, domain)

DeployFrom(c, docs, i, mp, skipConfigMap, domain) ==
    IF i > Len(docs) THEN [c |-> c, err |-> FALSE]
    ELSE IF ~docs[i].parses
    THEN DeployFrom(c, docs, i + 1, mp, skipConfigMap, domain)
    ELSE IF skipConfigMap /\ docs[i].kind = "ConfigMap"
            /\ docs[i].name = "tier-to-group-mapping"
    THEN DeployFrom(c, docs, i + 1, mp, skipConfigMap, domain)
    ELSE IF docs[i].kind = "PersistentVolumeClaim"
    THEN AfterPVCGet(Get(c, DocKey(docs[i]), NewObject), docs, i, mp, skipConfigMap, domain)
    ELSE AfterApply(applyUnstructured(c, DocKey(docs[i]),
                                      WithOwner(Render(docs[i], domain), docs[i], mp)),
                    docs, i, mp, skipConfigMap, domain)

\* the loop goes on to the next document whatever applyUnstructured
\* returned (a variant used to test the abort of a group)
AfterApplyContinue(r, docs, i, mp, skipConfigMap, domain) ==
    DeployFrom(r.c, docs, i + 1, mp, skipConfigMap, domain)

AfterApply(r, docs, i, mp, skipConfigMap, domain) ==
    IF r.err THEN [c |-> r.c, err |-> TRUE]
    ELSE DeployFrom(r.c, docs, i + 1, mp, skipConfigMap, domain)

\* the existence check does not keep the claim from being applied (a
\* variant used to test the properties of the volume claims)
AfterPVCGetApply(g, docs, i, mp, skipConfigMap, domain) ==
    IF g.res = "error" THEN [c |-> g.c, err |-> TRUE]
    ELSE AfterApply(applyUnstructured(g.c, DocKey(docs[i]),
                                      WithOwner(Render(docs[i], domain), docs[i], mp)),
                    docs, i, mp, skipConfigMap, domain)

AfterPVCGet(g, docs, i, mp, skipConfigMap, domain) ==
    IF g.res = "ok" THEN DeployFrom(g.c, docs, i + 1, mp, skipConfigMap, domain)
    ELSE IF g.res = "error" THEN [c |-> g.c, err |-> TRUE]
    ELSE AfterApply(applyUnstructured(g.c, DocKey(docs[i]),
                                      WithOwner(Render(docs[i], domain), docs[i], mp)),
                    docs, i, mp, skipConfigMap, domain)

DeployResolved(d, path, mp, skipConfigMap) ==
    DeployFrom(d.c, Manifest(path), 1, mp, skipConfigMap, d.domain)

\* deployEmbeddedManifest(ctx, path, maasPlatform, skipConfigMap)
deployEmbeddedManifest(c, path, mp, skipConfigMap) ==
    DeployResolved(substituteEnvVars(c), path, mp, skipConfigMap)

\* ensureNamespaces: the loop over requiredNamespaces[i..]
RECURSIVE EnsureFrom(_, _)
RECURSIVE AfterNamespaceGet(_, _)
RECURSIVE AfterNamespaceCreate(_, _)

EnsureFrom(c, i) ==
    IF i > Len(RequiredNamespaces) THEN [c |-> c, err |-> FALSE]
    ELSE AfterNamespaceGet(Get(c, NamespaceKey(RequiredNamespaces[i]), NewObject), i)

\* ensureNamespaces creates the namespace whether or not it was found (a
\* variant used to test the namespace bootstrap)
AfterNamespaceGetCreate(g, i) ==
    IF g.res = "error" THEN [c |-> g.c, err |-> TRUE]
    ELSE AfterNamespaceCreate(Create(g.c, NamespaceKey(RequiredNamespaces[i]),
                                     [g.obj EXCEPT !.rv = 0]), i)

AfterNamespaceGet(g, i) ==
    IF g.res = "notfound"
    THEN AfterNamespaceCreate(Create(g.c, NamespaceKey(RequiredNamespaces[i]), g.obj), i)
    ELSE IF g.res = "error" THEN [c |-> g.c, err |-> TRUE]
    ELSE EnsureFrom(g.c, i + 1)

AfterNamespaceCreate(w, i) ==
    IF w.res # "ok" THEN [c |-> w.c, err |-> TRUE]
    ELSE EnsureFrom(w.c, i + 1)

ensureNamespaces(c) == EnsureFrom(c, 1)

\* updateStatus: r.Status().Update(ctx, maasPlatform) with the object that
\* Reconcile fetched
\* the status update is sent without the resourceVersion of the fetched
\* platform (a variant used to test the stale status update)
updateStatusNoToken(c, mp, obj) ==
    Written(Update(c, PKey(mp), [obj EXCEPT !.rv = 0]))

updateStatus(c, mp, obj) == Written(Update(c, PKey(mp), obj))

\* Reconcile updates the status whatever the policy manifest returned (a
\* variant used to test the status update)
AfterPoliciesAlways(r, mp, obj) == updateStatus(r.c, mp, obj)

\* MaasPlatformReconciler.Reconcile, step by step after the fetch
AfterPolicies(r, mp, obj) ==
    IF r.err THEN [c |-> r.c, err |-> TRUE]
    ELSE updateStatus(r.c, mp, obj)

AfterNetworking(r, mp, obj) ==
    IF r.err THEN [c |-> r.c, err |-> TRUE]
    ELSE AfterPolicies(deployEmbeddedManifest(r.c, PathPolicies, mp, FALSE), mp, obj)

\* Reconcile deploys the networking group whatever the API group returned (a
\* variant used to test the ordering properties)
AfterApiContinue(r, mp, obj) ==
    AfterNetworking(deployEmbeddedManifest(r.c, PathNetworking, mp, FALSE), mp, obj)

AfterApi(r, mp, obj) ==
    IF r.err THEN [c |-> r.c, err |-> TRUE]
    ELSE AfterNetworking(deployEmbeddedManifest(r.c, PathNetworking, mp, FALSE), mp, obj)

\* Reconcile deploys the API manifest without the skip of the tier mapping
\* ConfigMap (a variant used to test the skip)
AfterNamespacesNoSkip(r, mp, obj) ==
    IF r.err THEN [c |-> r.c, err |-> TRUE]
    ELSE AfterApi(deployEmbeddedManifest(r.c, PathApi, mp, FALSE), mp, obj)

AfterNamespaces(r, mp, obj) ==
    IF r.err THEN [c |-> r.c, err |-> TRUE]
    ELSE AfterApi(deployEmbeddedManifest(r.c, PathApi, mp, TRUE), mp, obj)

\* Reconcile goes on when the platform is not found (a variant used to test
\* the properties of the fetch)
AfterFetchProceed(g, mp) ==
    IF g.res = "error" THEN [c |-> g.c, err |-> TRUE]
    ELSE AfterNamespaces(ensureNamespaces(g.c), mp, g.obj)

AfterFetch(g, mp) ==
    IF g.res = "notfound" THEN [c |-> g.c, err |-> FALSE]
    ELSE IF g.res = "error" THEN [c |-> g.c, err |-> TRUE]
    ELSE AfterNamespaces(ensureNamespaces(g.c), mp, g.obj)

\* MaasPlatformReconciler.Reconcile(ctx, req)
PlatformReconcile(c, req) == AfterFetch(Get(c, PKey(req), NewObject), req)

(***************************************************************************)
(* The state machine of the aggregation engine: the user creates, changes  *)
(* and deletes Tiers and MaasPlatforms and the scheduler invokes           *)
(* TierReconciler.Reconcile.                                               *)
(***************************************************************************)
NoCall == [op |-> "none"]

\* at most this many invocations run applyUnstructured at the same time
MaxInvocations == 2
Invocations == 1..MaxInvocations

\* an invocation that is not inside applyUnstructured
Idle == [pc |-> "idle"]
NoneInFlight == [i \in Invocations |-> Idle]

\* no platform reconcile stands as the last successful one
NoSettled == [set |-> FALSE]

\* the identities a reconcile request may name
TierIds == {TierId(t) : t \in TierUniverse}

\* the positions at which a store call of one invocation may fail: a Tier
\* reconcile makes at most two calls and then, per platform, one List and
\* three calls per derived artifact
CallPositions ==
    1..(2 + Cardinality(PlatformIds) * (1 + 3 * Cardinality(ArtifactKeys)))

RECURSIVE FaultSetsUpTo(_)
FaultSetsUpTo(k) ==
    IF k = 0 THEN {{}}
    ELSE LET prev == FaultSetsUpTo(k - 1)
         IN  prev \union {F \union {i} : F \in prev, i \in CallPositions}

ExistingPlatforms == {p \in PlatformIds : store[PKey(p)].present}

Init ==
    /\ tiers = {}
    /\ store = [k \in Keys |-> Absent]
    /\ last = NoCall
    /\ faultsLeft = MaxFaults
    /\ env = ""
    /\ settled = NoSettled
    /\ inflight = NoneInFlight

CreateTier ==
    /\ last = NoCall
    /\ Cardinality(tiers) < MaxTiers
    /\ \E t \in TierUniverse :
        /\ \A u \in tiers : TierId(u) # TierId(t)
        /\ tiers' = tiers \union {t}
    /\ UNCHANGED <<store, last, faultsLeft, env, settled, inflight>>

UpdateTier ==
    /\ last = NoCall
    /\ \E t \in TierUniverse, u \in tiers :
        /\ TierId(u) = TierId(t)
        /\ u # t
        /\ tiers' = (tiers \ {u}) \union {t}
    /\ UNCHANGED <<store, last, faultsLeft, env, settled, inflight>>

DeleteTier ==
    /\ last = NoCall
    /\ \E t \in tiers : tiers' = tiers \ {t}
    /\ UNCHANGED <<store, last, faultsLeft, env, settled, inflight>>

CreatePlatform ==
    /\ last = NoCall
    /\ \E p \in PlatformIds :
        /\ ~store[PKey(p)].present
        /\ store' = [store EXCEPT ![PKey(p)] = [NewObject EXCEPT !.rv = 1]]
    /\ settled' = NoSettled
    /\ UNCHANGED <<tiers, last, faultsLeft, env, inflight>>

DeletePlatform ==
    /\ last = NoCall
    /\ \E p \in PlatformIds :
        /\ store[PKey(p)].present
        /\ store' = [store EXCEPT ![PKey(p)] = Absent]
    /\ settled' = NoSettled
    /\ UNCHANGED <<tiers, last, faultsLeft, env, inflight>>

\* the outcome of one invocation, as the scheduler sees it
Outcome(r, req) ==
    [op |-> "TierReconcile", req |-> req, path |-> r.path, target |-> r.target,
     err |-> r.err, tr |-> r.c.tr, agg |-> r.c.agg]

\* the invocation r ran with the store failing at exactly the positions faults
Ran(r, req, faults) ==
    /\ faults \subseteq 1..Len(r.c.tr)
    /\ store' = r.c.st
    /\ faultsLeft' = faultsLeft - Cardinality(faults)
    /\ last' = Outcome(r, req)
    /\ settled' = NoSettled
    /\ UNCHANGED <<env, inflight>>

\* Reconcile for a Tier that exists (created or changed)
TierReconcileChild ==
    /\ last = NoCall
    /\ \E t \in tiers, faults \in FaultSetsUpTo(faultsLeft), order \in Perms(tiers) :
        Ran(Reconcile(Ctx(store, faults), TierId(t), <<>>,
                      [i \in 1..Cardinality(PlatformIds) |-> order]),
            TierId(t), faults)
    /\ UNCHANGED tiers

\* Reconcile for a Tier that is no longer in the store (deleted)
TierReconcileDeleted ==
    /\ last = NoCall
    /\ \E req \in TierIds :
        /\ \A t \in tiers : TierId(t) # req
        /\ \E faults \in FaultSetsUpTo(faultsLeft),
              platformOrder \in Perms(ExistingPlatforms),
              orders \in [1..Cardinality(PlatformIds) -> Perms(tiers)] :
            Ran(Reconcile(Ctx(store, faults), req, platformOrder, orders), req, faults)
    /\ UNCHANGED tiers

\* the invocation has returned and the scheduler has taken its result
Return ==
    /\ last # NoCall
    /\ last' = NoCall
    /\ UNCHANGED <<tiers, store, faultsLeft, env, settled, inflight>>

Next ==
    \/ CreateTier
    \/ UpdateTier
    \/ DeleteTier
    \/ CreatePlatform
    \/ DeletePlatform
    \/ TierReconcileChild
    \/ TierReconcileDeleted
    \/ Return

Spec == Init /\ [][Next]_vars

(***************************************************************************)
(* The state machine of the platform orchestrator: the user creates and    *)
(* deletes MaasPlatforms, the cluster's ingress configuration is set, and  *)
(* the scheduler invokes MaasPlatformReconciler.Reconcile.                 *)
(***************************************************************************)
\* the values of CLUSTER_DOMAIN in the operator's environment
EnvValues == {"", "apps.env.example.com"}

\* what the cluster ingress object may hold: spec.domain missing, empty or set
IngressBodies ==
    { [found |-> FALSE, domain |-> ""],
      [found |-> TRUE, domain |-> ""],
      [found |-> TRUE, domain |-> "apps.cluster.example.com"] }

InitPlatform ==
    /\ tiers = {}
    /\ store = [k \in Keys |-> Absent]
    /\ last = NoCall
    /\ faultsLeft = MaxFaults
    /\ env \in EnvValues
    /\ settled = NoSettled
    /\ inflight = NoneInFlight

\* the cluster ingress object is created or changed by the cluster's owner
SetIngress ==
    /\ last = NoCall
    /\ \E b \in IngressBodies :
        /\ ~(store[IngressKey].present /\ store[IngressKey].body = b)
        /\ store[IngressKey].present => store[IngressKey].rv < MaxRV
        /\ store' = [store EXCEPT ![IngressKey] =
                        [NewObject EXCEPT !.body = b,
                                          !.rv = IF store[IngressKey].present
                                                 THEN store[IngressKey].rv + 1 ELSE 1]]
    /\ settled' = NoSettled
    /\ UNCHANGED <<tiers, last, faultsLeft, env, inflight>>

\* the outcome of one platform reconcile, as the scheduler sees it
PlatformOutcome(r, req) ==
    [op |-> "PlatformReconcile", req |-> req, err |-> r.err, tr |-> r.c.tr,
     dom |-> r.c.dom, before |-> store, after |-> r.c.st, settled |-> settled]

\* the invocation r ran with the store failing at exactly the positions
\* faults and left no resourceVersion beyond maxrv
RanUpTo(r, req, faults, maxrv) ==
    /\ faults \subseteq 1..Len(r.c.tr)
    /\ \A k \in Keys : r.c.st[k].present => r.c.st[k].rv <= maxrv
    /\ store' = r.c.st
    /\ faultsLeft' = faultsLeft - Cardinality(faults)
    /\ last' = PlatformOutcome(r, req)
    /\ settled' = IF ~r.err /\ store[PKey(req)].present
                  THEN [set |-> TRUE, req |-> req, dom |-> r.c.dom]
                  ELSE NoSettled
    /\ UNCHANGED <<tiers, env, inflight>>

RanPlatform(r, req, faults) == RanUpTo(r, req, faults, MaxRV)

\* Reconcile for a platform identity
PlatformReconcileCall ==
    /\ last = NoCall
    /\ \E req \in PlatformIds, faults \in FaultSetsUpTo(faultsLeft) :
        RanPlatform(PlatformReconcile(Ctx(store, faults), req), req, faults)

NextPlatform ==
    \/ CreatePlatform
    \/ DeletePlatform
    \/ SetIngress
    \/ PlatformReconcileCall
    \/ Return

SpecPlatform == InitPlatform /\ [][NextPlatform]_vars

(***************************************************************************)
(* The platform orchestrator with other actors writing and deleting the    *)
(* objects it manages between its reconciles.                              *)
(***************************************************************************)
\* the managed objects another actor is seen to touch: one in the namespace
\* of a platform, one in another namespace whose text holds the cluster
\* domain, and the volume claim
DriftKeys ==
    { Key("Deployment", "maas-api", "maas-api"),
      Key("Gateway", "openshift-ingress", "maas-default-gateway"),
      Key("PersistentVolumeClaim", "maas-api", "maas-api-data") }

\* what another actor leaves in a managed object it edits by hand
Edited(k) == [NewObject EXCEPT !.body = [text |-> k, edited |-> TRUE]]

\* another actor (a user, another controller) writes a managed object with
\* content of its own, creating it when it is not there
ExternalWrite ==
    /\ last = NoCall
    /\ \E k \in DriftKeys :
        /\ ~(store[k].present /\ Content(store[k]) = Content(Edited(k)))
        /\ store[k].present => store[k].rv < MaxDriftRV
        /\ store' = [store EXCEPT ![k] =
                        [Edited(k) EXCEPT !.rv = IF store[k].present
                                                 THEN store[k].rv + 1 ELSE 1]]
    /\ settled' = NoSettled
    /\ UNCHANGED <<tiers, last, faultsLeft, env, inflight>>

\* another actor deletes a managed object
ExternalDelete ==
    /\ last = NoCall
    /\ \E k \in DriftKeys :
        /\ store[k].present
        /\ store' = [store EXCEPT ![k] = Absent]
    /\ settled' = NoSettled
    /\ UNCHANGED <<tiers, last, faultsLeft, env, inflight>>

PlatformReconcileDrift ==
    /\ last = NoCall
    /\ \E req \in PlatformIds, faults \in FaultSetsUpTo(faultsLeft) :
        RanUpTo(PlatformReconcile(Ctx(store, faults), req), req, faults, MaxDriftRV)

NextDrift ==
    \/ CreatePlatform
    \/ ExternalWrite
    \/ ExternalDelete
    \/ PlatformReconcileDrift
    \/ Return

SpecDrift == Init /\ [][NextDrift]_vars

(***************************************************************************)
(* The platform orchestrator under the scheduler's retries: a platform     *)
(* exists, nothing but the reconciler writes the store, the scheduler      *)
(* keeps invoking Reconcile for every request and takes every result, and  *)
(* the store fails a bounded number of calls.                              *)
(***************************************************************************)
InitRetry ==
    /\ tiers = {}
    /\ store = [k \in Keys |-> IF k = PKey(P1) THEN [NewObject EXCEPT !.rv = 1]
                                ELSE Absent]
    /\ last = NoCall
    /\ faultsLeft = MaxFaults
    /\ env \in EnvValues
    /\ settled = NoSettled
    /\ inflight = NoneInFlight

\* Reconcile(req), first or repeated
RetryReconcile(req) ==
    /\ last = NoCall
    /\ \E faults \in FaultSetsUpTo(faultsLeft) :
        RanUpTo(PlatformReconcile(Ctx(store, faults), req), req, faults, MaxRV)

NextRetry ==
    \/ \E req \in PlatformIds : RetryReconcile(req)
    \/ Return

\* the scheduler takes every result, and it serves every request again and
\* again: strong fairness of RetryReconcile(req), written out with the
\* condition under which that action is enabled (no invocation is running)
SpecRetry ==
    /\ InitRetry
    /\ [][NextRetry]_vars
    /\ WF_vars(Return)
    /\ \A req \in PlatformIds :
          <>[](last # NoCall) \/ []<><<RetryReconcile(req)>>_vars

(***************************************************************************)
(* The operator as a whole: both reconcilers serve requests on one store,  *)
(* one invocation at a time, while the user creates, changes and deletes   *)
(* Tiers and MaasPlatforms.                                                *)
(***************************************************************************)
\* the store serves every call
InitOperator ==
    /\ tiers = {}
    /\ store = [k \in Keys |-> Absent]
    /\ last = NoCall
    /\ faultsLeft = 0
    /\ env = ""
    /\ settled = NoSettled
    /\ inflight = NoneInFlight

NextOperator ==
    \/ CreateTier
    \/ UpdateTier
    \/ DeleteTier
    \/ CreatePlatform
    \/ DeletePlatform
    \/ TierReconcileChild
    \/ TierReconcileDeleted
    \/ PlatformReconcileCall
    \/ Return

SpecOperator == InitOperator /\ [][NextOperator]_vars

(***************************************************************************)
(* The tier mapping as a function of the Tiers' names: a platform and some *)
(* Tiers that target it are stored, and the Tier reconciler is invoked.    *)
(***************************************************************************)
\* names with the substrings of the level heuristic in lower and upper
\* case, alone and together, and names without them
NamePremiumGold       == <<80, 114, 101, 109, 105, 117, 109, 45, 71, 111, 108, 100>>
NameUpperEnterprise   == <<69, 78, 84, 69, 82, 80, 82, 73, 83, 69>>
NameEnterprisePremium == <<101, 110, 116, 101, 114, 112, 114, 105, 115, 101, 45, 112, 114, 101, 109, 105, 117, 109>>
NamePremiumEnterprise == <<112, 114, 101, 109, 105, 117, 109, 45, 101, 110, 116, 101, 114, 112, 114, 105, 115, 101>>
MappingNames ==
    {NameFree, NameBasic, NamePremium, NameEnterprise, NamePremiumGold,
     NameUpperEnterprise, NameEnterprisePremium, NamePremiumEnterprise}

MappingTiers == {Tier("maas-api", n, "mp", "", NoCfg, NoCfg) : n \in MappingNames}

InitMapping ==
    /\ tiers \in {S \in SUBSET MappingTiers : Cardinality(S) \in 1..MaxTiers}
    /\ store = [k \in Keys |-> IF k = PKey(P1) THEN [NewObject EXCEPT !.rv = 1]
                                ELSE Absent]
    /\ last = NoCall
    /\ faultsLeft = MaxFaults
    /\ env = ""
    /\ settled = NoSettled
    /\ inflight = NoneInFlight

NextMapping ==
    \/ TierReconcileChild
    \/ Return

SpecMapping == InitMapping /\ [][NextMapping]_vars

(***************************************************************************)
(* The document splitter as a function of the blob: splitYAMLDocuments is  *)
(* called with a blob of a few lines.                                      *)
(***************************************************************************)
MaxLines == 3

\* the lines a blob is made of: an empty line, a separator line, a
\* separator line after a space, a line of text, two dashes
LineUniverse ==
    { <<>>, <<Dash, Dash, Dash>>, <<32, Dash, Dash, Dash>>, <<97>>, <<Dash, Dash>> }

RECURSIVE JoinLines(_)
JoinLines(ls) ==
    IF Len(ls) = 1 THEN ls[1]
    ELSE ls[1] \o <<NewLine>> \o JoinLines(Tail(ls))

Blobs ==
    {JoinLines(ls) : ls \in UNION {[1..n -> LineUniverse] : n \in 1..MaxLines}}

InitSplit ==
    /\ tiers = {}
    /\ store = [k \in Keys |-> Absent]
    /\ last = NoCall
    /\ faultsLeft = 0
    /\ env = ""
    /\ settled = NoSettled
    /\ inflight = NoneInFlight

\* documents, err := splitYAMLDocuments(data)
SplitCall ==
    /\ last = NoCall
    /\ \E data \in Blobs :
          last' = [op |-> "splitYAMLDocuments", data |-> data,
                   documents |-> splitYAMLDocuments(data), err |-> FALSE]
    /\ UNCHANGED <<tiers, store, faultsLeft, env, settled, inflight>>

NextSplit ==
    \/ SplitCall
    \/ Return

SpecSplit == InitSplit /\ [][NextSplit]_vars

(***************************************************************************)
(* Reconcile of a platform in two steps, the fetch of the MaasPlatform and *)
(* the rest, while the user edits the MaasPlatform.                        *)
(***************************************************************************)
InitStatus ==
    /\ tiers = {}
    /\ store = [k \in Keys |-> Absent]
    /\ last = NoCall
    /\ faultsLeft = 0
    /\ env \in EnvValues
    /\ settled = NoSettled
    /\ inflight = NoneInFlight

\* the user changes a MaasPlatform: the store gives it a new resourceVersion
EditPlatform ==
    /\ last = NoCall
    /\ \E p \in ExistingPlatforms :
        /\ store[PKey(p)].rv < MaxRV
        /\ store' = [store EXCEPT ![PKey(p)] =
                        [@ EXCEPT !.rv = @ + 1, !.body = [edits |-> store[PKey(p)].rv]]]
    /\ settled' = NoSettled
    /\ UNCHANGED <<tiers, last, faultsLeft, env, inflight>>

\* r.Get(ctx, req.NamespacedName, maasPlatform): the invocation keeps the
\* MaasPlatform it read
FetchPlatform(i) ==
    /\ last = NoCall
    /\ inflight[i].pc = "idle"
    /\ \E req \in PlatformIds :
        inflight' = [inflight EXCEPT ![i] =
                        [pc |-> "fetched", req |-> req,
                         res |-> Get(Ctx(store, {}), PKey(req), NewObject).res,
                         current |-> Get(Ctx(store, {}), PKey(req), NewObject).obj]]
    /\ UNCHANGED <<tiers, store, last, faultsLeft, env, settled>>

\* Reconcile after the fetch, on the store as it is by now and with the
\* MaasPlatform as it was fetched
ReconcileFetched(i) ==
    /\ last = NoCall
    /\ inflight[i].pc = "fetched"
    /\ LET f == inflight[i]
           r == AfterFetch([c |-> Logged(Ctx(store, {}), "get", PKey(f.req), f.res),
                            res |-> f.res, obj |-> f.current], f.req)
       IN  /\ \A k \in Keys : r.c.st[k].present => r.c.st[k].rv <= MaxRV
           /\ store' = r.c.st
           /\ last' = PlatformOutcome(r, f.req)
                         @@ [fetched |-> f.current, at |-> store[PKey(f.req)]]
    /\ inflight' = [inflight EXCEPT ![i] = Idle]
    /\ settled' = NoSettled
    /\ UNCHANGED <<tiers, faultsLeft, env>>

NextStatus ==
    \/ CreatePlatform
    \/ EditPlatform
    \/ \E i \in Invocations : FetchPlatform(i)
    \/ \E i \in Invocations : ReconcileFetched(i)
    \/ Return

SpecStatus == InitStatus /\ [][NextStatus]_vars

(***************************************************************************)
(* applyUnstructured step by step: invocations of Reconcile that run at    *)
(* the same time each read an object and then write it, and the store      *)
(* serves their calls in any order.                                        *)
(***************************************************************************)
\* the rendered documents the invocations are seen to apply
ConcurrentDocs == {Manifest(PathApi)[4], Manifest(PathNetworking)[2]}

\* the cluster domains an invocation may have resolved
ConcurrentDomains == {DefaultDomain, "apps.cluster.example.com"}

\* r.Get(ctx, key, current) of applyUnstructured: the invocation keeps what
\* it read
ApplyGet(i) ==
    /\ inflight[i].pc = "idle"
    /\ \E d \in ConcurrentDocs, mp \in ExistingPlatforms, domain \in ConcurrentDomains :
        LET g == Get(Ctx(store, {}), DocKey(d), NewObject)
        IN  inflight' = [inflight EXCEPT ![i] =
                            [pc |-> "read", key |-> DocKey(d),
                             obj |-> WithOwner(Render(d, domain), d, mp),
                             res |-> g.res, current |-> g.obj]]
    /\ UNCHANGED <<tiers, store, last, faultsLeft, env, settled>>

\* the rest of applyUnstructured, on the store as it is by now: Create when
\* the Get found nothing, Update with the resourceVersion it read otherwise
ApplyWrite(i) ==
    /\ inflight[i].pc = "read"
    /\ LET f == inflight[i]
           r == ApplyAfterGet([c |-> Ctx(store, {}), res |-> f.res, obj |-> f.current],
                              f.key, f.obj)
       IN  /\ r.c.st[f.key].present => r.c.st[f.key].rv <= MaxDriftRV
           /\ store' = r.c.st
           /\ inflight' = [inflight EXCEPT ![i] =
                              [pc |-> "returned", key |-> f.key, res |-> f.res,
                               current |-> f.current, at |-> store[f.key],
                               tr |-> r.c.tr, err |-> r.err]]
    /\ UNCHANGED <<tiers, last, faultsLeft, env, settled>>

\* applyUnstructured has returned to its caller
ApplyReturn(i) ==
    /\ inflight[i].pc = "returned"
    /\ inflight' = [inflight EXCEPT ![i] = Idle]
    /\ UNCHANGED <<tiers, store, last, faultsLeft, env, settled>>

NextConcurrent ==
    \/ CreatePlatform
    \/ ExternalDelete
    \/ \E i \in Invocations : ApplyGet(i)
    \/ \E i \in Invocations : ApplyWrite(i)
    \/ \E i \in Invocations : ApplyReturn(i)

SpecConcurrent == Init /\ [][NextConcurrent]_vars

(***************************************************************************)
(* Properties of the aggregation engine.                                   *)
(***************************************************************************)
\* the aggregations run by the invocation that has just returned
Aggs ==
    IF last.op = "TierReconcile" THEN {last.agg[i] : i \in DOMAIN last.agg} ELSE {}

\* the tiers that match platform mp, in the order the store lists them
Matching(order, mp) == SelectSeq(order, LAMBDA t : Targets(t, mp))

\* the aggregation listed the tiers and none of them matches its platform
ZeroMatch(a) == a.calls[1].res = "ok" /\ Len(a.targetTiers) = 0

\* the store calls of an aggregation on one artifact
CallsOn(a, key) == SelectSeq(a.calls, LAMBDA k : k.kind = key.kind /\ k.name = key.name)

\* the apply of one artifact failed: its first Get failed, or its Create or
\* Update did
ApplyFailed(a, key) ==
    /\ CallsOn(a, key) # <<>>
    /\ LET z == CallsOn(a, key)[Len(CallsOn(a, key))]
       IN  \/ z.op = "get" /\ z.res = "error"
           \/ z.op \in {"create", "update"} /\ z.res # "ok"

Attempted(a, key) == CallsOn(a, key) # <<>>

\* C1: after a reconcileMaasPlatformTiers that returned success for a
\* platform with at least one matching child, the stored limit map of the
\* RateLimitPolicy and of the TokenRateLimitPolicy and the stored "tiers"
\* key of the ConfigMap equal the values computed from the matching children
\* (also when the artifact existed before with another value).
C1_StoredEqualsComputed ==
    \A a \in Aggs :
        (~a.err /\ Len(a.targetTiers) >= 1) =>
            /\ a.after[RLPKey].present
            /\ a.after[RLPKey].body.limits = RateLimits(a.targetTiers)
            /\ a.after[TRLPKey].present
            /\ a.after[TRLPKey].body.limits = TokenLimits(a.targetTiers)
            /\ a.after[CMKey].present
            /\ a.after[CMKey].body.tiers = TierMappings(a.targetTiers)

\* the matching children (positions in the list) that declare rate limits
DeclaringRate(ts) == {i \in 1..Len(ts) : ts[i].rateLimits.set}
DeclaringToken(ts) == {i \in 1..Len(ts) : ts[i].tokenRateLimits.set}

\* C2: for every set of children matching a platform, in every list order,
\* the computed RateLimitPolicy limit map has one rule per matching child
\* that declares rate limits and none for the others, and the rule of child
\* T carries T's limit and window and the predicate on T's name.
C2_OneRulePerChild ==
    \A mp \in PlatformIds : \A order \in Perms(tiers) :
        LET ts == Matching(order, mp)
            m  == RateLimits(ts)
        IN  /\ Cardinality(DOMAIN m) = Cardinality(DeclaringRate(ts))
            /\ \A k \in DOMAIN m : \E i \in DeclaringRate(ts) : k = TierName(ts[i])
            /\ \A i \in DeclaringRate(ts) :
                /\ TierName(ts[i]) \in DOMAIN m
                /\ m[TierName(ts[i])].rates =
                      << [limit |-> ts[i].rateLimits.limit,
                          window |-> ts[i].rateLimits.window] >>
                /\ m[TierName(ts[i])].when =
                      << [predicate |->
                            <<"auth.identity.tier == \"", TierName(ts[i]), "\"">>] >>

C4_TierMappingDeterministic ==
    \A mp \in PlatformIds : \A o1 \in Perms(tiers) :
        /\ \A o2 \in Perms(tiers) :
              TierMappings(Matching(o1, mp)) = TierMappings(Matching(o2, mp))
        /\ LET m == TierMappings(Matching(o1, mp))
           IN  \A i \in DOMAIN m : \A j \in DOMAIN m :
                  i < j => ~StrLess(m[j].name, m[i].name)

\* an aggregation created the ConfigMap from two children that the store
\* listed in descending order of name
C4_Witness ==
    \E a \in Aggs :
        /\ ~a.err
        /\ Len(a.targetTiers) >= 2
        /\ StrLess(a.targetTiers[2].name, a.targetTiers[1].name)
        /\ ~a.before[CMKey].present
        /\ a.after[CMKey].body.tiers[1].name = a.targetTiers[2].name

\* C5: a reconcile for a child that is no longer in the store, once the
\* platforms were listed, runs the aggregation for every platform that
\* exists, once each, whether or not one of the aggregations failed.
C5_DeletionAggregatesEveryPlatform ==
    (last.op = "TierReconcile" /\ last.path = "deleted"
        /\ Len(last.tr) >= 2 /\ last.tr[2].res = "ok") =>
        /\ {last.agg[i].mp : i \in DOMAIN last.agg} = ExistingPlatforms
        /\ Len(last.agg) = Cardinality(ExistingPlatforms)

\* the aggregation of the first of two platforms failed and the second
\* platform was aggregated all the same
C5_Witness ==
    /\ last.op = "TierReconcile"
    /\ last.path = "deleted"
    /\ Len(last.agg) = 2
    /\ last.agg[1].err
    /\ last.agg[1].mp # last.agg[2].mp
    /\ Len(last.agg[2].calls) >= 1

\* C6: an aggregation for a platform with zero matching children returns
\* success, issues no create and no update, and leaves the store as it was.
C6_ZeroMatchNoOp ==
    \A a \in Aggs :
        ZeroMatch(a) =>
            /\ ~a.err
            /\ a.after = a.before
            /\ \A i \in DOMAIN a.calls : a.calls[i].op \notin {"create", "update"}

\* an aggregation with zero matching children ran while tiers of another
\* platform exist and the three artifacts are in the store
C6_Witness ==
    \E a \in Aggs :
        /\ ZeroMatch(a)
        /\ tiers # {}
        /\ \A k \in ArtifactKeys : a.before[k].present

\* C7 as claimed: after an aggregation with zero matching children both rate
\* policies have zero rules and the ConfigMap is unmodified.
C7_ZeroRules ==
    \A a \in Aggs :
        ZeroMatch(a) =>
            /\ \A k \in {RLPKey, TRLPKey} :
                  a.after[k].present => DOMAIN a.after[k].body.limits = {}
            /\ a.after[CMKey] = a.before[CMKey]

\* C7 as amended: an aggregation with zero matching children leaves each of
\* the three artifacts as it found it: a policy that held rules still holds
\* them, with the same resourceVersion, and an absent artifact stays absent.
C7_ZeroMatchKeepsRules ==
    \A a \in Aggs :
        ZeroMatch(a) =>
            \A k \in ArtifactKeys :
                IF a.before[k].present
                THEN /\ a.after[k].present
                     /\ a.after[k].body = a.before[k].body
                     /\ a.after[k].rv = a.before[k].rv
                ELSE ~a.after[k].present

\* an aggregation with zero matching children found a RateLimitPolicy with
\* rules and left the rules in place
C7_Witness ==
    \E a \in Aggs :
        /\ ZeroMatch(a)
        /\ a.before[RLPKey].present
        /\ DOMAIN a.before[RLPKey].body.limits # {}
        /\ a.after[RLPKey].body.limits = a.before[RLPKey].body.limits

\* C8 as claimed: within one aggregation the failure of one artifact's apply
\* does not keep the later artifacts from being attempted.
C8_FailureDoesNotBlock ==
    \A a \in Aggs :
        /\ ApplyFailed(a, CMKey) => Attempted(a, RLPKey) /\ Attempted(a, TRLPKey)
        /\ ApplyFailed(a, RLPKey) => Attempted(a, TRLPKey)

\* C8 as amended: the failure of one artifact's apply ends the aggregation:
\* the artifacts after it (ConfigMap, RateLimitPolicy, TokenRateLimitPolicy
\* in this order) are not attempted and the aggregation returns the failure.
C8_FailureAborts ==
    \A a \in Aggs :
        /\ ApplyFailed(a, CMKey) =>
              a.err /\ ~Attempted(a, RLPKey) /\ ~Attempted(a, TRLPKey)
        /\ ApplyFailed(a, RLPKey) => a.err /\ ~Attempted(a, TRLPKey)
        /\ ApplyFailed(a, TRLPKey) => a.err

\* the apply of the ConfigMap failed in an aggregation with a matching child
C8_Witness ==
    \E a \in Aggs :
        /\ Len(a.targetTiers) >= 1
        /\ ApplyFailed(a, CMKey)
        /\ a.err

\* C9: an invocation in which the apply of at least one artifact failed
\* reports failure, on the child path and on the deletion path.
C9_FailureReported ==
    (\E a \in Aggs : \E k \in ArtifactKeys : ApplyFailed(a, k)) => last.err

(***************************************************************************)
(* Properties of the platform orchestrator.                                *)
(***************************************************************************)
\* the invocation that has just returned is a platform reconcile that came
\* directly after a successful reconcile of the same platform
SecondReconcile ==
    /\ last.op = "PlatformReconcile"
    /\ last.settled.set
    /\ last.settled.req = last.req

\* every cluster domain this reconcile resolved is the one the reconcile
\* before it resolved for the same manifest
SameDomains ==
    \A i \in DOMAIN last.dom :
        i \in DOMAIN last.settled.dom /\ last.dom[i] = last.settled.dom[i]

ManagedUnchanged == \A k \in ManagedKeys : last.after[k] = last.before[k]

\* the documents of the p-th manifest that the reconcile applies
AppliedDocs(p) == {d \in DocsOf(Paths[p]) : d.parses /\ DocKey(d) \in ManagedKeys}

PlatformRan == last.op = "PlatformReconcile"

\* the calls of the platform reconcile that has just returned on key
CallsAt(key) ==
    {i \in DOMAIN last.tr : /\ last.tr[i].kind = key.kind
                            /\ last.tr[i].namespace = key.namespace
                            /\ last.tr[i].name = key.name}

Writes == {i \in DOMAIN last.tr : last.tr[i].op \in {"create", "update"}}

PVCKey  == Key("PersistentVolumeClaim", "maas-api", "maas-api-data")
DeploymentKey == Key("Deployment", "maas-api", "maas-api")

KeyOf(call) == Key(call.kind, call.namespace, call.name)

\* the writes of rendered objects that lie outside the namespace of the
\* reconciled platform or in no namespace at all
ForeignWrites ==
    {i \in Writes : /\ KeyOf(last.tr[i]) \in ManagedKeys
                    /\ last.tr[i].namespace # last.req.namespace}

C13_ForeignObjectsLabelled ==
    PlatformRan =>
        \A i \in ForeignWrites :
            last.tr[i].namespace # "" => last.tr[i].obj.labels # NoLabels

GatewayKey == Key("Gateway", "openshift-ingress", "maas-default-gateway")

\* the platform reconcile that has just returned succeeded for a platform
\* that exists
Succeeded == PlatformRan /\ ~last.err /\ last.before[PKey(last.req)].present

\* what the reconcile that has just returned rendered for document d of its
\* p-th manifest
Desired(d, p) == Content(WithOwner(Render(d, last.dom[p]), d, last.req))

\* the store holds every rendered object of the reconcile that has just
\* returned with the rendered content, but for a volume claim that was
\* stored before
HoldsRendered ==
    \A p \in DOMAIN Paths : \A d \in AppliedDocs(p) :
        \/ d.kind = "PersistentVolumeClaim" /\ last.before[DocKey(d)].present
        \/ /\ store[DocKey(d)].present
           /\ Content(store[DocKey(d)]) = Desired(d, p)

\* C14: when a platform reconcile has returned success, every rendered
\* object that is neither skip-listed nor a volume claim that existed
\* before is stored with exactly the rendered content, whatever the store
\* held before: an object another actor edited is reverted, one another
\* actor deleted is created again.
C14_ConvergesToRendered == Succeeded => HoldsRendered

\* a successful reconcile found the Deployment edited by another actor and
\* the Gateway deleted by one, and left both as rendered
C14_Witness ==
    /\ Succeeded
    /\ last.before[DeploymentKey].present
    /\ Content(last.before[DeploymentKey]) = Content(Edited(DeploymentKey))
    /\ last.before[DeploymentKey].rv > 1
    /\ ~last.before[GatewayKey].present
    /\ last.before[Key("AuthPolicy", "openshift-ingress", "gateway-auth-policy")].present
    /\ Content(store[DeploymentKey]) # Content(Edited(DeploymentKey))
    /\ store[GatewayKey].present
    /\ HoldsRendered

\* C17: a platform reconcile whose fetch finds no platform returns success
\* and one whose fetch fails returns the error; either way the fetch is
\* its only store call and the store is left exactly as it was (no
\* namespace, no rendered object, no status update).
C17_NoPlatformNoWrite ==
    PlatformRan =>
        /\ last.tr[1].op = "get"
        /\ KeyOf(last.tr[1]) = PKey(last.req)
        /\ last.tr[1].res = "notfound" =>
              ~last.err /\ Len(last.tr) = 1 /\ store = last.before
        /\ last.tr[1].res = "error" =>
              last.err /\ Len(last.tr) = 1 /\ store = last.before

\* a reconcile for a platform that was deleted after it had been deployed
\* returned success and wrote nothing
C17_Witness ==
    /\ PlatformRan
    /\ ~last.before[PKey(last.req)].present
    /\ last.before[DeploymentKey].present
    /\ last.before[DeploymentKey].owner.set
    /\ last.before[DeploymentKey].owner.namespace = last.req.namespace
    /\ last.tr[1].res = "notfound"
    /\ ~last.err
    /\ store = last.before

\* the group (1: API service, 2: networking, 3: policies) of a call on a
\* rendered object
RenderedCalls == {i \in DOMAIN last.tr : KeyOf(last.tr[i]) \in ManagedKeys}
GroupOf(call) ==
    CHOOSE p \in DOMAIN Paths : \E d \in AppliedDocs(p) : DocKey(d) = KeyOf(call)

\* a call the store did not serve: a lookup that failed, a write that was
\* not accepted
Failed(call) ==
    \/ call.op = "get" /\ call.res = "error"
    \/ call.op \in {"create", "update"} /\ call.res # "ok"

\* C18: a platform reconcile processes the three groups in the fixed order
\* API service, networking, policies: the calls on rendered objects come
\* in group order, and when the first call on a group is made every object
\* of the groups before it has been processed; a failed call on a rendered
\* object is the last call of the reconcile, which returns the failure, so
\* nothing of a later group is written; what was written before stays.
C18_GroupsInOrder ==
    PlatformRan =>
        /\ \A i, j \in RenderedCalls :
              i < j => GroupOf(last.tr[i]) <= GroupOf(last.tr[j])
        /\ \A j \in RenderedCalls :
              \A p \in 1..(GroupOf(last.tr[j]) - 1) : \A d \in AppliedDocs(p) :
                  \E i \in 1..(j - 1) : KeyOf(last.tr[i]) = DocKey(d)
        /\ \A i \in RenderedCalls :
              Failed(last.tr[i]) =>
                  /\ i = Len(last.tr)
                  /\ last.err
                  /\ \A d \in UNION {AppliedDocs(p) :
                                       p \in (GroupOf(last.tr[i]) + 1)..Len(Paths)} :
                        store[DocKey(d)] = last.before[DocKey(d)]
        /\ \A i \in RenderedCalls :
              (last.tr[i].op \in {"create", "update"} /\ last.tr[i].res = "ok") =>
                  /\ store[KeyOf(last.tr[i])].present
                  /\ Content(store[KeyOf(last.tr[i])]) = Content(last.tr[i].obj)

\* a reconcile created the objects of the API group, failed on the Gateway
\* of the networking group and returned the failure: the policy group was
\* not touched and the API objects are stored
C18_Witness ==
    /\ PlatformRan
    /\ last.err
    /\ ~last.before[DeploymentKey].present
    /\ \E i \in RenderedCalls :
          /\ last.tr[i].kind = "Deployment"
          /\ last.tr[i].op = "create"
          /\ last.tr[i].res = "ok"
    /\ KeyOf(last.tr[Len(last.tr)]) = GatewayKey
    /\ Failed(last.tr[Len(last.tr)])
    /\ \A i \in RenderedCalls : last.tr[i].kind # "AuthPolicy"
    /\ ~store[Key("AuthPolicy", "openshift-ingress", "gateway-auth-policy")].present
    /\ store[DeploymentKey].present

\* C19: a platform reconcile makes no call at all on the ConfigMap
\* tier-to-group-mapping, which the API manifest contains as its first
\* document, and leaves it as it is; the documents after it are still
\* processed, the volume claim first.
C19_TierMappingSkipped ==
    PlatformRan =>
        /\ CallsAt(CMKey) = {}
        /\ store[CMKey] = last.before[CMKey]
        /\ RenderedCalls # {} =>
              \A i \in RenderedCalls :
                  (\A j \in RenderedCalls : i <= j) => KeyOf(last.tr[i]) = PVCKey
        /\ Succeeded =>
              \A d \in AppliedDocs(1) : CallsAt(DocKey(d)) # {}

\* a reconcile succeeded from an empty store: it created the volume claim,
\* the Deployment and the route of the API manifest and the ConfigMap is
\* not stored
C19_Witness ==
    /\ Succeeded
    /\ Manifest(PathApi)[1].kind = "ConfigMap"
    /\ DocKey(Manifest(PathApi)[1]) = CMKey
    /\ ~store[CMKey].present
    /\ \A d \in AppliedDocs(1) :
          /\ ~last.before[DocKey(d)].present
          /\ \E i \in CallsAt(DocKey(d)) :
                last.tr[i].op = "create" /\ last.tr[i].res = "ok"

\* C16: with a platform stored, no writer but the reconciler, the
\* scheduler invoking Reconcile again after every failure and the store's
\* failures stopping at some point, a reconcile of the platform eventually
\* succeeds and the store then holds the full rendered set; what a failed
\* reconcile has left written does not keep a later one from succeeding.
C16_RetryConverges ==
    store[PKey(P1)].present ~> (Succeeded /\ last.req = P1 /\ HoldsRendered)

\* a reconcile succeeded and left the full rendered set after an earlier
\* one had failed between the Deployment and the Gateway
C16_Witness ==
    /\ Succeeded
    /\ last.req = P1
    /\ faultsLeft < MaxFaults
    /\ last.before[DeploymentKey].present
    /\ ~last.before[GatewayKey].present
    /\ \A i \in DOMAIN last.tr : last.tr[i].res # "error"
    /\ HoldsRendered

\* the writes of the Tier reconcile that has just returned
TierWrites == {i \in DOMAIN last.tr : last.tr[i].op \in {"create", "update"}}

FixedIdentities ==
    { [kind |-> "ConfigMap", namespace |-> "maas-api", name |-> "tier-to-group-mapping"],
      [kind |-> "RateLimitPolicy", namespace |-> "openshift-ingress",
       name |-> "gateway-rate-limits"],
      [kind |-> "TokenRateLimitPolicy", namespace |-> "openshift-ingress",
       name |-> "gateway-token-rate-limits"] }

Policies == {k \in Keys : k.kind \in {"RateLimitPolicy", "TokenRateLimitPolicy"}}

TargetsDefaultGateway(o) ==
    /\ o.body.targetRef.kind = "Gateway"
    /\ o.body.targetRef.name = "maas-default-gateway"

\* C20: an aggregation creates and updates nothing but the three fixed
\* identities, whichever platform and Tiers it runs for, so there is at most
\* one stored object of each derived kind; every policy it sends and every
\* policy stored targets the gateway maas-default-gateway.
C20_FixedArtifacts ==
    /\ last.op = "TierReconcile" =>
          \A i \in TierWrites :
              /\ [kind |-> last.tr[i].kind, namespace |-> last.tr[i].namespace,
                  name |-> last.tr[i].name] \in FixedIdentities
              /\ last.tr[i].kind \in {"RateLimitPolicy", "TokenRateLimitPolicy"} =>
                    TargetsDefaultGateway(last.tr[i].obj)
    /\ \A kind \in {"ConfigMap", "RateLimitPolicy", "TokenRateLimitPolicy"} :
          Cardinality({k \in Keys : k.kind = kind /\ store[k].present}) <= 1
    /\ \A k \in Policies : store[k].present => TargetsDefaultGateway(store[k])

\* a Tier reconcile aggregated for two platforms and wrote each of the three
\* artifacts for both: one object of each stands in the store
C20_Witness ==
    /\ last.op = "TierReconcile"
    /\ Len(last.agg) = 2
    /\ \A id \in FixedIdentities :
          Cardinality({i \in TierWrites : /\ last.tr[i].kind = id.kind
                                          /\ last.tr[i].namespace = id.namespace
                                          /\ last.tr[i].name = id.name
                                          /\ last.tr[i].res = "ok"}) = 2
    /\ \A k \in ArtifactKeys : store[k].present
    /\ \A k \in Policies : TargetsDefaultGateway(store[k])

(***************************************************************************)
(* Properties of concurrent invocations.                                   *)
(***************************************************************************)
\* the invocations whose applyUnstructured read a stored object and has
\* returned, the object being still stored when it came to write
Replaced ==
    {i \in Invocations : /\ inflight[i].pc = "returned"
                         /\ inflight[i].res = "ok"
                         /\ inflight[i].at.present}

UpdatesOf(i) == {j \in DOMAIN inflight[i].tr : inflight[i].tr[j].op = "update"}

\* C15: of invocations that interleave their get and update on one object,
\* an update is accepted only when the resourceVersion it carries is the
\* one the object has at that moment; the invocation whose resourceVersion
\* is stale gets a conflict, its applyUnstructured returns the error, it
\* has sent that one update and no other call, and the object is as the
\* other invocation left it.
C15_StaleUpdateRejected ==
    \A i \in Replaced :
        /\ Cardinality(UpdatesOf(i)) = 1
        /\ Len(inflight[i].tr) = 1
        /\ inflight[i].tr[1].obj.rv = inflight[i].current.rv
        /\ inflight[i].tr[1].res = "ok" =>
              /\ inflight[i].tr[1].obj.rv = inflight[i].at.rv
              /\ ~inflight[i].err
        /\ inflight[i].current.rv # inflight[i].at.rv =>
              /\ inflight[i].tr[1].res = "conflict"
              /\ inflight[i].err

\* two invocations read the same object at the same resourceVersion; the
\* update of one was accepted and changed the object, the update of the
\* other met a conflict
C15_Witness ==
    \E i, j \in Replaced :
        /\ i # j
        /\ inflight[i].key = inflight[j].key
        /\ inflight[i].current.rv = inflight[j].current.rv
        /\ inflight[i].tr[1].res = "ok"
        /\ inflight[j].tr[1].res = "conflict"
        /\ inflight[j].err
        /\ store[inflight[j].key].rv = inflight[j].current.rv + 1

(***************************************************************************)
(* Properties of the operator as a whole.                                  *)
(***************************************************************************)
\* an invocation of either reconciler runs in this step
Invoked == last = NoCall /\ last' # NoCall

ReadOps == {"get", "list"}

\* C21: no invocation of either reconciler creates, updates or deletes a
\* Tier: the set of Tiers and the content of each is the same after it as
\* before, and its calls on Tiers are reads; and an invocation of the Tier
\* reconciler makes only reads on MaasPlatforms and leaves every
\* MaasPlatform as stored.
C21_ChildrenReadOnly ==
    [][Invoked =>
          /\ tiers' = tiers
          /\ \A i \in DOMAIN last'.tr :
                last'.tr[i].kind = "Tier" => last'.tr[i].op \in ReadOps
          /\ last'.op = "TierReconcile" =>
                /\ \A i \in DOMAIN last'.tr :
                      last'.tr[i].kind = "MaasPlatform" => last'.tr[i].op \in ReadOps
                /\ \A p \in PlatformIds : store'[PKey(p)] = store[PKey(p)]]_vars

\* a Tier reconcile has aggregated the two Tiers of a platform whose
\* manifests are deployed and has written the three artifacts
C21_Witness ==
    /\ last.op = "TierReconcile"
    /\ Cardinality(tiers) = 2
    /\ store[DeploymentKey].present
    /\ Len(last.agg) = 1
    /\ Len(last.agg[1].targetTiers) = 2
    /\ ~last.err
    /\ \A k \in ArtifactKeys :
          \E i \in TierWrites : KeyOf(last.tr[i]) = k /\ last.tr[i].res = "ok"

(***************************************************************************)
(* Properties of the Convergence Applier (applyUnstructured) and of the    *)
(* steps of a platform reconcile.                                          *)
(***************************************************************************)
\* the rendered documents that go straight to applyUnstructured
DirectDocs(p) == {d \in AppliedDocs(p) : d.kind # "PersistentVolumeClaim"}

WritesAt(key) == {i \in CallsAt(key) : last.tr[i].op \in {"create", "update"}}

\* C22: applyUnstructured looks the object up by its identity; not found,
\* it issues one create of the rendered object and no update; found, it
\* issues one update of the rendered object carrying the resourceVersion
\* that was read and no create, and once the update is accepted the stored
\* content is the rendered content: no field of the former content that
\* the rendered object lacks is left.
C22_CreateOrReplace ==
    PlatformRan =>
        \A p \in DOMAIN last.dom : \A d \in DirectDocs(p) :
            /\ Cardinality(WritesAt(DocKey(d))) <= 1
            /\ \A i \in CallsAt(DocKey(d)) :
                  /\ (last.tr[i].op = "get" /\ last.tr[i].res = "notfound") =>
                        /\ i + 1 \in CallsAt(DocKey(d))
                        /\ last.tr[i + 1].op = "create"
                        /\ last.tr[i + 1].obj.rv = 0
                        /\ Content(last.tr[i + 1].obj) = Desired(d, p)
                  /\ (last.tr[i].op = "get" /\ last.tr[i].res = "ok") =>
                        /\ i + 1 \in CallsAt(DocKey(d))
                        /\ last.tr[i + 1].op = "update"
                        /\ last.tr[i + 1].obj.rv = last.before[DocKey(d)].rv
                        /\ Content(last.tr[i + 1].obj) = Desired(d, p)
                        /\ last.tr[i + 1].res = "ok" =>
                              /\ Content(store[DocKey(d)]) = Desired(d, p)
                              /\ DOMAIN store[DocKey(d)].body
                                    \subseteq DOMAIN Render(d, last.dom[p]).body
                  /\ last.tr[i].op \in {"create", "update"} =>
                        /\ i - 1 \in CallsAt(DocKey(d))
                        /\ last.tr[i - 1].op = "get"

\* one reconcile replaced the Deployment, which another actor had edited
\* (a field the rendered object lacks), and created the Gateway, which was
\* not stored
C22_Witness ==
    /\ PlatformRan
    /\ last.before[DeploymentKey].present
    /\ "edited" \in DOMAIN last.before[DeploymentKey].body
    /\ \E i \in WritesAt(DeploymentKey) :
          /\ last.tr[i].op = "update"
          /\ last.tr[i].res = "ok"
          /\ last.tr[i].obj.rv = last.before[DeploymentKey].rv
    /\ "edited" \notin DOMAIN store[DeploymentKey].body
    /\ store[DeploymentKey].rv = last.before[DeploymentKey].rv + 1
    /\ ~last.before[GatewayKey].present
    /\ \E i \in WritesAt(GatewayKey) :
          last.tr[i].op = "create" /\ last.tr[i].res = "ok"
    /\ Cardinality(WritesAt(GatewayKey)) = 1

RouteKey == Key("HTTPRoute", "maas-api", "maas-api-route")

\* the place of a rendered object among the documents of its manifest
PlaceOf(key) ==
    CHOOSE n \in DOMAIN Manifest(Paths[GroupOf(key)]) :
        /\ Manifest(Paths[GroupOf(key)])[n].parses
        /\ DocKey(Manifest(Paths[GroupOf(key)])[n]) = key

\* the rendered objects that come after key in its manifest
LaterInGroup(key) ==
    {k \in ManagedKeys : GroupOf(k) = GroupOf(key) /\ PlaceOf(k) > PlaceOf(key)}
EarlierInGroup(key) ==
    {k \in ManagedKeys : GroupOf(k) = GroupOf(key) /\ PlaceOf(k) < PlaceOf(key)}

\* C23: while a manifest is applied, a lookup that finds nothing is no
\* error: the call after it is the create (for a volume claim, the lookup
\* of applyUnstructured and then the create); a lookup that fails and a
\* create or update that is not accepted end the reconcile at once with an
\* error: no call is made on the documents after it in the manifest, which
\* stay as they were, and the objects written before it in the manifest
\* stay as written.
C23_AbortWithinGroup ==
    PlatformRan =>
        \A i \in RenderedCalls :
            /\ (last.tr[i].op = "get" /\ last.tr[i].res = "notfound") =>
                  /\ i < Len(last.tr)
                  /\ KeyOf(last.tr[i + 1]) = KeyOf(last.tr[i])
                  /\ last.tr[i + 1].op = "create"
                        \/ (last.tr[i].kind = "PersistentVolumeClaim"
                               /\ last.tr[i + 1].op = "get")
            /\ Failed(last.tr[i]) =>
                  /\ i = Len(last.tr)
                  /\ last.err
                  /\ \A k \in LaterInGroup(KeyOf(last.tr[i])) :
                        CallsAt(k) = {} /\ store[k] = last.before[k]
                  /\ \A k \in EarlierInGroup(KeyOf(last.tr[i])) :
                        \A j \in WritesAt(k) :
                            /\ last.tr[j].res = "ok"
                            /\ store[k].present
                            /\ Content(store[k]) = Content(last.tr[j].obj)

\* a reconcile created the volume claim, was refused the create of the
\* Deployment and returned the error: the route after it was not touched
\* and the volume claim is stored
C23_Witness ==
    /\ PlatformRan
    /\ last.err
    /\ ~last.before[PVCKey].present
    /\ store[PVCKey].present
    /\ KeyOf(last.tr[Len(last.tr)]) = DeploymentKey
    /\ last.tr[Len(last.tr)].op = "create"
    /\ Failed(last.tr[Len(last.tr)])
    /\ last.tr[Len(last.tr) - 1].res = "notfound"
    /\ CallsAt(RouteKey) = {}
    /\ ~store[RouteKey].present
    /\ ~store[DeploymentKey].present

\* the owner link to platform mp
OwnerLink(mp) ==
    [set |-> TRUE, kind |-> "MaasPlatform", name |-> mp.name, namespace |-> mp.namespace]

\* the writes of rendered objects in the namespace of the reconciled
\* platform
HomeWrites ==
    {i \in Writes : /\ KeyOf(last.tr[i]) \in ManagedKeys
                    /\ last.tr[i].namespace # ""
                    /\ last.tr[i].namespace = last.req.namespace}

NamespaceCalls == {i \in DOMAIN last.tr : last.tr[i].kind = "Namespace"}

\* the calls a reconcile makes once ensureNamespaces has returned success
BeyondNamespaces ==
    {i \in DOMAIN last.tr : last.tr[i].kind \notin {"MaasPlatform", "Namespace"}}

\* C25: ensureNamespaces creates what is absent and nothing else: once it
\* has returned success both maas-api and kuadrant-system are stored; a
\* namespace that was stored is looked up once, not created and not
\* updated, and stays as it was; one that was not stored is created after
\* its lookup; a lookup or create that fails is the last call of the
\* reconcile, which returns an error before any manifest is applied.
C25_NamespaceBootstrap ==
    PlatformRan =>
        /\ \A i \in NamespaceCalls :
              /\ last.tr[i].namespace = ""
              /\ last.tr[i].name \in {"maas-api", "kuadrant-system"}
              /\ last.tr[i].op \in {"get", "create"}
              /\ last.tr[i].op = "create" =>
                    /\ ~last.before[KeyOf(last.tr[i])].present
                    /\ last.tr[i - 1].op = "get"
                    /\ last.tr[i - 1].res = "notfound"
                    /\ KeyOf(last.tr[i - 1]) = KeyOf(last.tr[i])
              /\ (last.tr[i].op = "get" /\ last.tr[i].res = "notfound") =>
                    /\ i < Len(last.tr)
                    /\ last.tr[i + 1].op = "create"
                    /\ KeyOf(last.tr[i + 1]) = KeyOf(last.tr[i])
              /\ Failed(last.tr[i]) =>
                    /\ i = Len(last.tr)
                    /\ last.err
                    /\ BeyondNamespaces = {}
                    /\ \A k \in ManagedKeys : store[k] = last.before[k]
        /\ \A k \in NamespaceKeys :
              last.before[k].present =>
                  /\ store[k] = last.before[k]
                  /\ Cardinality(CallsAt(k)) <= 1
        /\ BeyondNamespaces # {} =>
              /\ store[NamespaceKey("maas-api")].present
              /\ store[NamespaceKey("kuadrant-system")].present
              /\ \A k \in NamespaceKeys : CallsAt(k) # {}
              /\ \A i \in NamespaceCalls : \A j \in BeyondNamespaces : i < j

\* a reconcile found maas-api stored and kuadrant-system not (an earlier
\* reconcile had failed in between): it looked maas-api up once, created
\* kuadrant-system and went on to the manifests
C25_Witness ==
    /\ PlatformRan
    /\ last.before[NamespaceKey("maas-api")].present
    /\ ~last.before[NamespaceKey("kuadrant-system")].present
    /\ Cardinality(CallsAt(NamespaceKey("maas-api"))) = 1
    /\ \E i \in CallsAt(NamespaceKey("kuadrant-system")) :
          last.tr[i].op = "create" /\ last.tr[i].res = "ok"
    /\ store[NamespaceKey("kuadrant-system")].present
    /\ RenderedCalls # {}
    /\ ~last.err

\* the status updates of the reconcile that has just returned
StatusCalls ==
    {i \in DOMAIN last.tr : last.tr[i].kind = "MaasPlatform" /\ last.tr[i].op = "update"}

\* the platform was fetched, the namespace bootstrap succeeded and so did
\* each of the three manifests
AllGroupsSucceeded ==
    /\ last.tr[1].res = "ok"
    /\ \A i \in NamespaceCalls \union RenderedCalls : ~Failed(last.tr[i])
    /\ Len(last.dom) = Len(Paths)
    /\ \A p \in DOMAIN Paths : \A d \in AppliedDocs(p) : CallsAt(DocKey(d)) # {}

\* C26: a platform reconcile updates the status of the MaasPlatform at
\* most once, as its last store call, and does so exactly when the
\* namespace bootstrap and all three manifests have succeeded; it returns
\* an error when the status update is not accepted and success when it is.
C26_StatusUpdateLast ==
    PlatformRan =>
        /\ Cardinality(StatusCalls) <= 1
        /\ \A i \in StatusCalls :
              /\ i = Len(last.tr)
              /\ KeyOf(last.tr[i]) = PKey(last.req)
              /\ last.err <=> Failed(last.tr[i])
        /\ StatusCalls # {} <=> AllGroupsSucceeded
        /\ ~last.err =>
              StatusCalls # {} \/ last.tr[1].res = "notfound"

\* a reconcile created the objects of all three manifests and then sent
\* the status update, which was accepted, as its last call
C26_Witness ==
    /\ PlatformRan
    /\ ~last.err
    /\ StatusCalls = {Len(last.tr)}
    /\ last.tr[Len(last.tr)].res = "ok"
    /\ last.tr[Len(last.tr) - 1].kind = "AuthPolicy"
    /\ last.tr[Len(last.tr) - 1].op = "create"
    /\ \A k \in ManagedKeys : ~last.before[k].present /\ store[k].present

(***************************************************************************)
(* Properties of the aggregation: selection of the children, reads, and    *)
(* the tier mapping table.                                                 *)
(***************************************************************************)
\* the namespace a Tier's target reference resolves to
ResolvedNamespace(t) ==
    IF t.targetRef.namespace = "" THEN t.namespace ELSE t.targetRef.namespace

\* the Tiers, of all namespaces, that point at platform mp
ChildrenOf(mp) ==
    {t \in tiers : t.targetRef.name = mp.name /\ ResolvedNamespace(t) = mp.namespace}

\* C27: a Tier's target is (TargetRef.name, TargetRef.namespace), an empty
\* TargetRef.namespace standing for the Tier's own namespace: a Tier
\* reconcile for a stored Tier looks up and aggregates for that platform;
\* and an aggregation for platform P that has listed the Tiers uses, out of
\* the Tiers of every namespace, exactly those whose target is P, each
\* once; a Tier with P's name in its TargetRef that resolves to another
\* namespace is left out.
C27_TargetResolution ==
    /\ (last.op = "TierReconcile" /\ last.path = "child") =>
          /\ \E t \in tiers :
                /\ TierId(t) = last.req
                /\ last.target = [name |-> t.targetRef.name,
                                  namespace |-> ResolvedNamespace(t)]
          /\ last.tr[2].kind = "MaasPlatform"
          /\ last.tr[2].name = last.target.name
          /\ last.tr[2].namespace = last.target.namespace
          /\ \A a \in Aggs : a.mp = last.target
    /\ \A a \in Aggs :
          a.calls[1].res = "ok" =>
              /\ {a.targetTiers[i] : i \in DOMAIN a.targetTiers} = ChildrenOf(a.mp)
              /\ Len(a.targetTiers) = Cardinality(ChildrenOf(a.mp))

\* an aggregation for the platform mp in maas-api, with a Tier of ns2 that
\* names maas-api/mp and a Tier of ns2 that names mp with no namespace,
\* used the first and left the second out
C27_Witness ==
    /\ tiers = {TierC, TierD}
    /\ last.op = "TierReconcile"
    /\ last.path = "child"
    /\ last.req = TierId(TierC)
    /\ last.target = P1
    /\ Len(last.agg) = 1
    /\ last.agg[1].mp = P1
    /\ last.agg[1].targetTiers = <<TierC>>
    /\ TierD.targetRef.name = P1.name
    /\ ~last.err

\* a read of the store that failed with an error other than not-found
FailedRead(call) == call.op \in ReadOps /\ call.res = "error"

\* C28: a read that fails, at any point of an aggregation, makes the
\* aggregation return a failure, and no create or update of the artifact
\* that was being read follows it; this holds for the lookup made right
\* before the artifact is written as well.
C28_ReadFailurePropagated ==
    \A a \in Aggs : \A i \in DOMAIN a.calls :
        FailedRead(a.calls[i]) =>
            /\ a.err
            /\ \A j \in DOMAIN a.calls :
                  (j > i /\ KeyOf(a.calls[j]) = KeyOf(a.calls[i])) =>
                      a.calls[j].op \notin {"create", "update"}

\* the aggregation had a create or update of the ConfigMap accepted
WroteTable(a) ==
    \E i \in DOMAIN a.calls :
        /\ KeyOf(a.calls[i]) = CMKey
        /\ a.calls[i].op \in {"create", "update"}
        /\ a.calls[i].res = "ok"

\* C29: whenever an aggregation has written the ConfigMap, the stored
\* object holds the mapping under the one data key "tiers", carries the
\* label app.kubernetes.io/managed-by = maas-operator and the label
\* maas-platform = <name>.<namespace> of the platform the aggregation ran
\* for, and has no owner link.
C29_TableLabelled ==
    \A a \in Aggs :
        WroteTable(a) =>
            /\ a.after[CMKey].present
            /\ DOMAIN a.after[CMKey].body = {"tiers"}
            /\ "app.kubernetes.io/managed-by" \in DOMAIN a.after[CMKey].labels
            /\ a.after[CMKey].labels["app.kubernetes.io/managed-by"] = "maas-operator"
            /\ "maas-platform" \in DOMAIN a.after[CMKey].labels
            /\ a.after[CMKey].labels["maas-platform"] = <<a.mp.name, ".", a.mp.namespace>>
            /\ ~a.after[CMKey].owner.set

\* the same for an aggregation that created the ConfigMap
CreatedTableLabelled ==
    \A a \in Aggs :
        (\E i \in DOMAIN a.calls :
            /\ KeyOf(a.calls[i]) = CMKey
            /\ a.calls[i].op = "create"
            /\ a.calls[i].res = "ok") =>
            /\ DOMAIN a.after[CMKey].body = {"tiers"}
            /\ a.after[CMKey].labels["app.kubernetes.io/managed-by"] = "maas-operator"
            /\ a.after[CMKey].labels["maas-platform"] = <<a.mp.name, ".", a.mp.namespace>>
            /\ ~a.after[CMKey].owner.set

\* the level the claim gives each name of MappingNames
ClaimedLevel(name) ==
    CASE name = NameFree -> 0
      [] name = NameBasic -> 0
      [] name = NamePremium -> 1
      [] name = NamePremiumGold -> 1
      [] name = NameEnterprise -> 2
      [] name = NameUpperEnterprise -> 2
      [] name = NameEnterprisePremium -> 1
      [] name = NamePremiumEnterprise -> 1

\* the aggregation created the ConfigMap, so that what it built is stored
CreatedTable(a) ==
    \E i \in DOMAIN a.calls :
        /\ KeyOf(a.calls[i]) = CMKey
        /\ a.calls[i].op = "create"
        /\ a.calls[i].res = "ok"

Blocks(a) == a.after[CMKey].body.tiers

\* C30: the tier mapping has one block per matching child; a block holds
\* the child's name, the groups tier-<name>-users and system:authenticated,
\* and the level of the name: 1 when it contains "premium" in any case, 2
\* when it contains "enterprise" in any case and not "premium", 0
\* otherwise.
C30_MappingBlocks ==
    \A a \in Aggs :
        CreatedTable(a) =>
            /\ Len(Blocks(a)) = Cardinality(ChildrenOf(a.mp))
            /\ {Blocks(a)[i].name : i \in DOMAIN Blocks(a)}
                  = {t.name : t \in ChildrenOf(a.mp)}
            /\ \A i \in DOMAIN Blocks(a) :
                  /\ DOMAIN Blocks(a)[i] = {"name", "level", "groups"}
                  /\ Blocks(a)[i].groups
                        = << <<"tier-", Blocks(a)[i].name, "-users">>,
                             "system:authenticated" >>
                  /\ Blocks(a)[i].level = ClaimedLevel(Blocks(a)[i].name)

\* a table was created for a Tier whose name holds both substrings,
\* "enterprise" first, and a Tier named in upper case
C30_Witness ==
    /\ last.op = "TierReconcile"
    /\ Len(last.agg) = 1
    /\ CreatedTable(last.agg[1])
    /\ Len(Blocks(last.agg[1])) = 2
    /\ Blocks(last.agg[1])[1].name = NameUpperEnterprise
    /\ Blocks(last.agg[1])[1].level = 2
    /\ Blocks(last.agg[1])[2].name = NameEnterprisePremium
    /\ Blocks(last.agg[1])[2].level = 1

(***************************************************************************)
(* Properties of the variable resolver and of the documents of a group.    *)
(***************************************************************************)
\* the positions of the lookups of the cluster ingress object in the trace
\* of the last platform reconcile, in the order they were made
IngressGets ==
    {i \in DOMAIN last.tr : KeyOf(last.tr[i]) = IngressKey}

RECURSIVE Ascending(_)
Ascending(S) ==
    IF S = {} THEN <<>>
    ELSE LET m == CHOOSE x \in S : \A y \in S : x <= y
         IN  <<m>> \o Ascending(S \ {m})

\* the domain the claim gives for a lookup with result res while the
\* cluster ingress object is o
ClaimedDomain(res, o) ==
    IF res = "ok" /\ o.present /\ o.body.found /\ o.body.domain # ""
    THEN o.body.domain
    ELSE "apps.example.com"

\* C31: every cluster domain a platform reconcile resolves is non-empty;
\* it is the override when the override is non-empty, and then the cluster
\* ingress object is not read; otherwise it is the domain field of the
\* ingress object when the lookup succeeds and the field is non-empty, and
\* 'apps.example.com' when the lookup fails or the field is missing or
\* empty; a failed lookup does not end the reconcile.
C31_DomainResolved ==
    PlatformRan =>
        /\ \A j \in DOMAIN last.dom : last.dom[j] # ""
        /\ env # "" =>
              /\ \A j \in DOMAIN last.dom : last.dom[j] = env
              /\ IngressGets = {}
        /\ env = "" =>
              /\ Cardinality(IngressGets) = Len(last.dom)
              /\ \A i \in IngressGets : last.tr[i].op = "get" /\ i < Len(last.tr)
              /\ \A j \in DOMAIN last.dom :
                    last.dom[j] = ClaimedDomain(last.tr[Ascending(IngressGets)[j]].res,
                                                last.before[IngressKey])

\* a reconcile without override, the ingress object holding a domain: one
\* lookup failed and gave the default, the others gave the stored domain,
\* and the reconcile succeeded
C31_Witness ==
    /\ PlatformRan
    /\ env = ""
    /\ ~last.err
    /\ last.before[IngressKey].present
    /\ last.before[IngressKey].body.found
    /\ last.before[IngressKey].body.domain = "apps.cluster.example.com"
    /\ last.dom = <<"apps.cluster.example.com", "apps.example.com",
                    "apps.cluster.example.com">>
    /\ \E i \in IngressGets : last.tr[i].res = "error"

\* the last call the reconcile made on key
LastCallAt(key) == CHOOSE i \in CallsAt(key) : \A j \in CallsAt(key) : j <= i

\* every document of the manifest at path that parses and is not left to
\* the Tier reconciler was applied: calls were made on it and none failed
GroupApplied(p) ==
    \A d \in AppliedDocs(p) :
        /\ CallsAt(DocKey(d)) # {}
        /\ \A i \in CallsAt(DocKey(d)) : ~Failed(last.tr[i])

\* C32: the document of the maas-api manifest that does not parse is passed
\* over: when the reconcile is done with the volume claim before it without
\* an error, its next call is on the Deployment after it, and when all the
\* documents of the manifest that parse were applied the manifest has
\* succeeded and the reconcile goes on to the networking manifest.
C32_UnparsedSkipped ==
    PlatformRan =>
        /\ (CallsAt(PVCKey) # {} /\ ~Failed(last.tr[LastCallAt(PVCKey)])) =>
              /\ LastCallAt(PVCKey) < Len(last.tr)
              /\ KeyOf(last.tr[LastCallAt(PVCKey) + 1]) = DeploymentKey
        /\ (Len(last.dom) >= 1 /\ GroupApplied(1)) =>
              /\ Len(last.dom) >= 2
              /\ \E i \in RenderedCalls : GroupOf(last.tr[i]) = 2

\* a reconcile created the volume claim, then the Deployment and the route
\* on the other side of the document that does not parse, and succeeded
C32_Witness ==
    /\ PlatformRan
    /\ ~last.err
    /\ \E i \in CallsAt(PVCKey) : last.tr[i].op = "create" /\ last.tr[i].res = "ok"
    /\ \E i \in CallsAt(DeploymentKey) : last.tr[i].op = "create" /\ last.tr[i].res = "ok"
    /\ \E i \in CallsAt(RouteKey) : last.tr[i].op = "create" /\ last.tr[i].res = "ok"
    /\ \E n \in DOMAIN Manifest(PathApi) :
          /\ ~Manifest(PathApi)[n].parses
          /\ PlaceOf(PVCKey) < n
          /\ n < PlaceOf(DeploymentKey)

(***************************************************************************)
(* Properties of the document splitter.                                    *)
(***************************************************************************)
SplitRan == last.op = "splitYAMLDocuments"

\* nothing but white space, or nothing at all
Blank(s) == \A i \in DOMAIN s : s[i] \in {9, 10, 11, 12, 13, 32}

\* a line whose trimmed content begins with the three dashes
SeparatorLine(l) ==
    \E k \in DOMAIN l :
        /\ \A j \in 1..(k - 1) : l[j] \in {9, 11, 12, 13, 32}
        /\ k + 2 <= Len(l)
        /\ l[k] = 45 /\ l[k + 1] = 45 /\ l[k + 2] = 45

\* a block that is one separator line, with or without its newline
OnlySeparatorLine(doc) ==
    /\ doc # <<>>
    /\ \A i \in 1..(Len(doc) - 1) : doc[i] # 10
    /\ SeparatorLine(IF doc[Len(doc)] = 10 THEN SubSeq(doc, 1, Len(doc) - 1) ELSE doc)

\* the blob starts with a separator line, or with blank lines followed by
\* a separator line
LeadingDocumentEmpty(data) ==
    \E n \in DOMAIN SplitLines(data) :
        /\ SeparatorLine(SplitLines(data)[n])
        /\ \A j \in 1..(n - 1) : Blank(SplitLines(data)[j])

\* C33: no block the splitter returns is empty or is only a separator
\* line, and when the blob starts with a separator line, or with blank
\* lines followed by a separator line, no block is returned for that
\* leading part: the first block, if any, is not blank.
C33_SplitterBlocks ==
    SplitRan =>
        /\ \A i \in DOMAIN last.documents :
              /\ last.documents[i] # <<>>
              /\ ~OnlySeparatorLine(last.documents[i])
        /\ (LeadingDocumentEmpty(last.data) /\ last.documents # <<>>) =>
              ~Blank(last.documents[1])

(***************************************************************************)
(* Properties of the Tier reconciler: a child without its platform, the    *)
(* order of the listing, and two platforms.                                *)
(***************************************************************************)
\* the Tier reconcile that has just returned was for a Tier that is stored
\* and whose target MaasPlatform is not
ChildWithoutPlatform ==
    /\ last.op = "TierReconcile"
    /\ last.path = "child"
    /\ last.tr[1].res = "ok"
    /\ PKey(last.target) \in Keys => ~store[PKey(last.target)].present

\* C34: a reconcile for a stored Tier whose resolved target MaasPlatform
\* is not in the store returns an error after the lookup of the platform:
\* it runs no aggregation and creates or updates nothing.
C34_MissingPlatformFails ==
    ChildWithoutPlatform =>
        /\ last.err
        /\ last.agg = <<>>
        /\ Len(last.tr) = 2
        /\ last.tr[2].op = "get"
        /\ last.tr[2].kind = "MaasPlatform"
        /\ \A i \in DOMAIN last.tr : last.tr[i].op \notin {"create", "update"}

\* such a reconcile has returned: the lookup of the platform found
\* nothing, while another platform and a Tier that targets the missing
\* one are stored
C34_Witness ==
    /\ ChildWithoutPlatform
    /\ last.tr[2].res = "notfound"
    /\ last.target = P1
    /\ store[PKey(P2)].present
    /\ \E t \in tiers : ResolveTarget(t) = P1

\* the matching children of an aggregation, as a set
Selected(a) == {a.targetTiers[i] : i \in DOMAIN a.targetTiers}

\* the limit maps an aggregation computes are those of every other order
\* of its matching children
OrderIndependent(a) ==
    \A order \in Perms(Selected(a)) :
        /\ RateLimits(order) = RateLimits(a.targetTiers)
        /\ TokenLimits(order) = TokenLimits(a.targetTiers)

\* C35: the limit maps of the RateLimitPolicy and of the
\* TokenRateLimitPolicy an aggregation computes from its matching children
\* are the same for every order in which the store may list those
\* children, also when two of them in different namespaces have the same
\* name and different limits.
C35_ListOrderIrrelevant ==
    \A a \in Aggs : OrderIndependent(a)

\* the same for aggregations whose matching children have distinct names
DistinctNamesOrderIrrelevant ==
    \A a \in Aggs :
        (\A t, u \in Selected(a) : TierName(t) = TierName(u) => t = u) =>
            OrderIndependent(a)

\* the Tier reconcile that has just returned took the deletion path and
\* ran two aggregations that succeeded, each for a platform with at least
\* one matching child
TwoPlatformsAggregated ==
    /\ last.op = "TierReconcile"
    /\ last.path = "deleted"
    /\ Len(last.agg) = 2
    /\ \A i \in 1..2 : ~last.agg[i].err /\ Len(last.agg[i].targetTiers) >= 1

\* C36: after a recompute over all platforms that aggregated for one
\* platform and then for another, each with a matching child, the shared
\* artifacts hold what was computed for the second platform only: the
\* limit maps and the tier blocks of its children and its identity in the
\* label maas-platform.
C36_LastPlatformWins ==
    TwoPlatformsAggregated =>
        /\ store[RLPKey].present
        /\ store[RLPKey].body.limits = RateLimits(last.agg[2].targetTiers)
        /\ store[TRLPKey].present
        /\ store[TRLPKey].body.limits = TokenLimits(last.agg[2].targetTiers)
        /\ store[CMKey].present
        /\ store[CMKey].body.tiers = TierMappings(last.agg[2].targetTiers)
        /\ "maas-platform" \in DOMAIN store[CMKey].labels
        /\ store[CMKey].labels["maas-platform"]
              = <<last.agg[2].mp.name, ".", last.agg[2].mp.namespace>>

(***************************************************************************)
(* Properties of invocations that race: two creates of one object, and a   *)
(* platform that changes while it is reconciled.                           *)
(***************************************************************************)
\* invocation i, which found nothing at its Get, makes its write in this step
WritesUnseen(i) ==
    /\ inflight[i].pc = "read"
    /\ inflight[i].res = "notfound"
    /\ inflight'[i].pc = "returned"

\* C37: an invocation that saw the object absent sends one create and
\* nothing else. When the object is still absent the create is accepted
\* and the object stored is the one it sent; when another invocation has
\* created the object in between, the create is refused, applyUnstructured
\* returns the error without an update, and the store stays as the other
\* invocation left it.
C37_CreateRace ==
    [][\A i \in Invocations :
          WritesUnseen(i) =>
              /\ Len(inflight'[i].tr) = 1
              /\ inflight'[i].tr[1].op = "create"
              /\ KeyOf(inflight'[i].tr[1]) = inflight[i].key
              /\ store[inflight[i].key].present =>
                    /\ inflight'[i].tr[1].res = "exists"
                    /\ inflight'[i].err
                    /\ store' = store
              /\ ~store[inflight[i].key].present =>
                    /\ inflight'[i].tr[1].res = "ok"
                    /\ ~inflight'[i].err
                    /\ store'[inflight[i].key].present
                    /\ Content(store'[inflight[i].key]) = Content(inflight[i].obj)
                    /\ \A k \in Keys \ {inflight[i].key} : store'[k] = store[k]]_vars

\* two invocations saw the same object absent and rendered it differently;
\* both have sent their create: one was accepted, the other was refused
\* and returned the error, and the object stored is the one of the first
C37_Witness ==
    \E i, j \in Invocations :
        /\ i # j
        /\ inflight[i].pc = "returned" /\ inflight[j].pc = "returned"
        /\ inflight[i].res = "notfound" /\ inflight[j].res = "notfound"
        /\ inflight[i].key = inflight[j].key
        /\ inflight[i].tr[1].res = "ok" /\ ~inflight[i].err
        /\ inflight[j].tr = <<inflight[j].tr[1]>>
        /\ inflight[j].tr[1].op = "create"
        /\ inflight[j].tr[1].res = "exists" /\ inflight[j].err
        /\ Content(inflight[i].tr[1].obj) # Content(inflight[j].tr[1].obj)
        /\ store[inflight[i].key].present
        /\ Content(store[inflight[i].key]) = Content(inflight[i].tr[1].obj)

\* the MaasPlatform was changed between the fetch of the reconcile that has
\* just returned and the rest of that reconcile
ChangedSinceFetch ==
    /\ PlatformRan
    /\ last.tr[1].res = "ok"
    /\ last.at.present
    /\ last.at.rv # last.fetched.rv

\* C38: the status update of a platform reconcile carries the
\* resourceVersion of the MaasPlatform as the reconcile fetched it; when
\* the MaasPlatform was changed after the fetch, the status update is
\* refused as stale and the reconcile returns an error, with every object
\* of the three manifests applied before it; when it was not changed, the
\* status update is accepted.
C38_StaleStatusRejected ==
    PlatformRan =>
        /\ \A i \in StatusCalls : last.tr[i].obj.rv = last.fetched.rv
        /\ ChangedSinceFetch =>
              /\ StatusCalls # {}
              /\ \A i \in StatusCalls : last.tr[i].res = "conflict"
              /\ last.err
              /\ AllGroupsSucceeded
              /\ \A p \in DOMAIN Paths : \A d \in AppliedDocs(p) :
                    store[DocKey(d)].present
        /\ (last.tr[1].res = "ok" /\ last.at = last.fetched) =>
              /\ StatusCalls # {}
              /\ \A i \in StatusCalls : last.tr[i].res = "ok"
              /\ ~last.err

\* a reconcile fetched the MaasPlatform at its first resourceVersion, the
\* user changed it, and the reconcile created the managed objects and had
\* its status update refused
C38_Witness ==
    /\ ChangedSinceFetch
    /\ last.fetched.rv = 1
    /\ last.at.rv = 2
    /\ last.err
    /\ last.tr[Len(last.tr)].op = "update"
    /\ last.tr[Len(last.tr)].kind = "MaasPlatform"
    /\ last.tr[Len(last.tr)].res = "conflict"
    /\ store[DeploymentKey].present
    /\ ~last.before[DeploymentKey].present

====
